---------------------------- MODULE Spec2Model ----------------------------
(***************************************************************************)
(* A model of the image enhancement pipeline of src/utils/imageProcessor.ts *)
(* (class ImageProcessor).                                                  *)
(*                                                                          *)
(* One invocation of processImage, processImageRealtime or getImageInfo is  *)
(* a promise whose executor sets img.src; the browser then fires img.onload *)
(* or img.onerror.  The onload handler is modelled statement group by       *)
(* statement group (pc is the handler's position), because every statement  *)
(* group that allocates or touches the canvas may throw, and the throw is   *)
(* caught by the handler's try/catch, which rejects the promise.            *)
(*                                                                          *)
(* Numbers.  Sample values are the integers 0..255 a Uint8ClampedArray      *)
(* holds.  Filter parameters that the code computes as fractions are kept   *)
(* in thousandths.  Scale factors are kept as exact fractions num/den;      *)
(* Math.floor(dim * scale) is computed in IEEE-754 doubles by the code, see *)
(* FloorScaled.                                                             *)
(***************************************************************************)
EXTENDS Integers, Sequences, FiniteSets, TLC

VARIABLES
    mode,        \* which entry point was called: "none" before the call
    settings,    \* the ProcessingSettings record passed to the call
    img,         \* the decoded source: [width, height, data]
    pc,          \* position inside the invocation
    loads,       \* how many times img.src was assigned
    canvas,      \* the canvas created by createOptimizedCanvas
    imageData,   \* the working raster (let imageData)
    log,         \* what the invocation did so far, in order: calls,
                 \* returns, throws and values passed to onProgress
    settleLog,   \* calls made to the promise's resolve / reject
    result       \* what the promise was settled with

vars == <<mode, settings, img, pc, loads, canvas, imageData, log,
          settleLog, result>>

--------------------------------------------------------------------------
(* Bounds of the model *)

\* source dimensions of SpecSizes are the multiples of DimStep up to
\* DimStep * MaxDimSteps, together with EdgeDims
MaxDimSteps == 12

DimStep == 250

--------------------------------------------------------------------------
(* Arithmetic helpers *)

Max(a, b) == IF a >= b THEN a ELSE b

RECURSIVE GCD(_, _)
GCD(a, b) == IF b = 0 THEN a ELSE GCD(b, a % b)

\* num/den has a finite binary expansion, so the double holding it is exact
IsDyadic(num, den) ==
    LET q == den \div GCD(num, den)
    IN  \E k \in 0..30 : q = 2^k

\* Math.floor(dim * scale) with scale = num/den held in a double.  When the
\* quotient num/den is not exact in binary the double is off by a relative
\* error below 2^-52, and so is the product; that moves the floor only when
\* dim*num/den is an integer n, and then only down to n-1 (e.g.
\* Math.floor(1078 * (800 / 1078)) is 799).  Which of the two a given input
\* takes depends on the bits of the operands, so both are outcomes here.
FloorScaled(dim, num, den) ==
    LET exact == (dim * num) \div den
    IN  IF (dim * num) % den = 0 /\ ~IsDyadic(num, den)
        THEN {exact - 1, exact}
        ELSE {exact}


\* Math.min over scale factors held as fractions <<num, den>>
FracMin(a, b) == IF a[1] * b[2] <= b[1] * a[2] THEN a ELSE b

--------------------------------------------------------------------------
(* Rasters: [width, height, data].  data is the row-major sequence of      *)
(* pixels <<r, g, b, a>>, held in run-length form: a sequence of runs       *)
(* [n, px], n >= 1 consecutive pixels of value px, adjacent runs differing  *)
(* in px.  The content of a raster is tracked only where the model computes *)
(* it; NoData stands for a content that is not tracked.                     *)

NoData == <<>>

NoRaster == [width |-> 0, height |-> 0, data |-> NoData]

Untracked(r) == [r EXCEPT !.data = NoData]

\* the pixel at row-major position i (from 1) of the runs
RECURSIVE PixelAt(_, _)
PixelAt(runs, i) ==
    IF i <= Head(runs).n
    THEN Head(runs).px
    ELSE PixelAt(Tail(runs), i - Head(runs).n)

RECURSIVE Ascending(_)
Ascending(S) ==
    IF S = {}
    THEN <<>>
    ELSE LET least == CHOOSE x \in S : \A y \in S : x <= y
         IN  <<least>> \o Ascending(S \ {least})

\* runs with equal neighbours joined
RECURSIVE Joined(_)
Joined(runs) ==
    IF Len(runs) < 2
    THEN runs
    ELSE IF runs[1].px = runs[2].px
         THEN Joined(<<[n |-> runs[1].n + runs[2].n, px |-> runs[1].px]>>
                     \o SubSeq(runs, 3, Len(runs)))
         ELSE <<runs[1]>> \o Joined(Tail(runs))

\* ctx.drawImage(img, 0, 0, width, height): the platform resamples the
\* source onto the canvas.  Taken as nearest-neighbour sampling, with which
\* every interpolating resampler agrees on 1:1 draws and on flat sources,
\* the only sources whose content is tracked.  The context is created with
\* alpha: false, so the canvas is opaque.
DrawnData(src, width, height) ==
    IF src.data = NoData
    THEN NoData
    ELSE LET Drawn(i) ==
                LET x  == (i - 1) % width
                    y  == (i - 1) \div width
                    sx == (x * src.width) \div width
                    sy == (y * src.height) \div height
                    p  == PixelAt(src.data, sy * src.width + sx + 1)
                IN  <<p[1], p[2], p[3], 255>>
             \* the positions where a run of the drawn pixels starts
             starts ==
                Ascending({i \in 1..(width * height) :
                              i = 1 \/ Drawn(i) # Drawn(i - 1)})
         IN  [k \in 1..Len(starts) |->
                [n  |-> (IF k < Len(starts)
                         THEN starts[k + 1]
                         ELSE width * height + 1) - starts[k],
                 px |-> Drawn(starts[k])]]

--------------------------------------------------------------------------
(* Working-raster dimensions *)

maxSize == 800

\* Faulty variant: the preview scale taken from the width alone
PreviewScaleWidthOnly(w, h) == FracMin(<<maxSize, w>>, <<1, 1>>)

\* processImageRealtime: scale = Math.min(maxSize / img.width,
\*                                        maxSize / img.height, 1)
PreviewScale(w, h) ==
    FracMin(FracMin(<<maxSize, w>>, <<maxSize, h>>), <<1, 1>>)

OneMegapixel == 1000000

UpscaleCap == 1500

\* Faulty variant: the x2 upscale without its cap at 1500
FinalScaleNoCap(w, h) == IF w * h < OneMegapixel THEN <<2, 1>> ELSE <<1, 1>>

\* processImage: scale = 1, or Math.min(2, 1500 / Math.max(w, h)) when the
\* source has less than 1MP
FinalScale(w, h) ==
    IF w * h < OneMegapixel
    THEN FracMin(<<2, 1>>, <<UpscaleCap, Max(w, h)>>)
    ELSE <<1, 1>>

ScaleOf(m, w, h) == IF m = "preview" THEN PreviewScale(w, h) ELSE FinalScale(w, h)

\* the pairs <<width, height>> that Math.floor(img.width * scale),
\* Math.floor(img.height * scale) can yield
WorkingDims(m, w, h) ==
    LET s == ScaleOf(m, w, h)
    IN  FloorScaled(w, s[1], s[2]) \X FloorScaled(h, s[1], s[2])

--------------------------------------------------------------------------
(* Filter parameters, in thousandths *)

\* the arguments each mode passes to applyBilateralFilter for denoising
DenoiseArgs(m, d) ==
    IF m = "preview"
    THEN <<2000 + 30 * d, 15000 + 350 * d>>
    ELSE <<3000 + 40 * d, 20000 + 500 * d>>

\* applyAdvancedAIEnhancement: applyBilateralFilter(imageData, w, h, 3, 25)
AIBilateralArgs == <<3000, 25000>>

\* amount, radius, threshold passed to applyUnsharpMask
UnsharpArgs(m, s) ==
    IF m = "preview"
    THEN <<500 + 20 * s, 1000 + 15 * s, 3000>>
    ELSE <<1000 + 30 * s, 1200 + 20 * s, 2000>>

--------------------------------------------------------------------------
(* Tone mapper *)

\* the value a Uint8ClampedArray stores for sqrt(num / den): the nearest
\* integer, clamped to 0..255 (a tie cannot occur for the arguments used
\* below, (2n+1)^2 * den being odd and 4 * num even)
RoundSqrt255(num, den) ==
    CHOOSE n \in 0..255 :
        /\ (n = 0 \/ (2 * n - 1) * (2 * n - 1) * den <= 4 * num)
        /\ (n = 255 \/ (2 * n + 1) * (2 * n + 1) * den > 4 * num)

\* the brightness values whose gamma 1 + brightness / 100 is a multiple of
\* 1/2, for which Math.pow is computed here exactly
GammaTracked(brightness) == brightness \in {-50, 0, 50}

\* applyAdvancedToneMapping on one sample, contrast = 0 (applySCurve returns
\* its argument): Math.pow(value / 255, 1 + brightness / 100) * 255, stored
\* into the Uint8ClampedArray
\*   brightness =  50: 255 * (v/255)^(3/2) = sqrt(v^3 / 255)
\*   brightness = -50: 255 * (v/255)^(1/2) = sqrt(255 * v)
ToneSample(value, brightness) ==
    CASE brightness = 0   -> value
      [] brightness = 50  -> RoundSqrt255(value * value * value, 255)
      [] brightness = -50 -> RoundSqrt255(255 * value, 1)

\* applyAdvancedToneMapping: every RGB sample remapped, alpha untouched, the
\* raster mutated in place and returned.  (The luminance histogram and CDF
\* the function computes first are not read by the remapping.)
ToneMapped(r, brightness, contrast) ==
    IF r.data = NoData \/ contrast # 0 \/ ~GammaTracked(brightness)
    THEN Untracked(r)
    ELSE LET Mapped(p) ==
                <<ToneSample(p[1], brightness), ToneSample(p[2], brightness),
                  ToneSample(p[3], brightness), p[4]>>
         IN  [r EXCEPT !.data =
                Joined([k \in 1..Len(r.data) |->
                          [n |-> r.data[k].n, px |-> Mapped(r.data[k].px)]])]

\* applyAdvancedSaturation: a pixel with max = min is skipped (continue);
\* the HSL round trip of chromatic pixels is not tracked
Saturated(r, saturation) ==
    IF r.data # NoData /\ \A k \in 1..Len(r.data) :
            r.data[k].px[1] = r.data[k].px[2]
            /\ r.data[k].px[2] = r.data[k].px[3]
    THEN r
    ELSE Untracked(r)

--------------------------------------------------------------------------
(* The log, the promise and the progress sink *)

CallEv(fn, args) == [ev |-> "call", fn |-> fn, args |-> args]

ReturnEv(fn) == [ev |-> "return", fn |-> fn]

ThrowEv(fn) == [ev |-> "throw", fn |-> fn]

ProgressEv(value) == [ev |-> "progress", value |-> value]

\* onProgress?.(value): only processImage takes the callback
Emit(m, value) == IF m = "final" THEN <<ProgressEv(value)>> ELSE <<>>

\* resolve(value) / reject(error): the first call settles the promise
Settle(call, value) ==
    /\ settleLog' = Append(settleLog, call)
    /\ result' = IF settleLog = <<>> THEN value ELSE result

\* Faulty variant: a catch block that falls back to the canvas as it is
ThrowThenResolve(fn) ==
    /\ Settle("resolve", [kind |-> "image", raster |-> canvas])
    /\ pc' = "done"

\* an exception inside img.onload: catch (error) { reject(error) }, and the
\* handler returns.  fn names the call that threw.
Throw(fn) ==
    /\ Settle("reject", [kind |-> "error", thrownBy |-> fn])
    /\ pc' = "done"

\* Faulty variant: processImage written with the statement order of the preview
StageOrderPreviewForBoth(m) ==
    <<"denoise", "tone", "saturate", "sharpen", "ai", "put">>

\* Faulty variant: processImageRealtime written with the statement order of
\* processImage
StageOrderFinalForBoth(m) ==
    <<"denoise", "ai", "tone", "saturate", "sharpen", "put">>

\* the statement order of the two handlers, as positions
StageOrder(m) ==
    IF m = "preview"
    THEN <<"denoise", "tone", "saturate", "sharpen", "ai", "put">>
    ELSE <<"denoise", "ai", "tone", "saturate", "sharpen", "put">>

After(m, stage) ==
    LET order == StageOrder(m)
        k     == CHOOSE j \in 1..Len(order) : order[j] = stage
    IN  order[k + 1]

\* the conditions of the handler's if statements
\* Faulty variant: the denoising guard written with >=
DenoiseActiveAtZero(s) == s.denoising >= 0

DenoiseActive(s) == s.denoising > 0

\* Faulty variant: the AI chain run without its guard
AIAlways(s) == TRUE

AIActive(s) == s.useAI

\* Faulty variant: the tone mapper guarded by the brightness alone
ToneActiveBrightnessOnly(s) == s.brightness # 0

ToneActive(s) == s.brightness # 0 \/ s.contrast # 0

SaturateActive(s) == s.saturation # 0

SharpenActive(s) == s.sharpening > 0

\* One filter call of the handler at position `here`, guarded by `active`:
\* after the events `pre` the call fn(args) is made; either it returns
\* `newData`, the events `post` follow and the handler moves to `next`, or
\* it throws.
RunStage(here, active, pre, fn, args, newData, post, next) ==
    /\ pc = here
    /\ IF active
       THEN \E returns \in BOOLEAN :
              IF returns
              THEN /\ log' = log \o pre \o <<CallEv(fn, args), ReturnEv(fn)>>
                                 \o post
                   /\ imageData' = newData
                   /\ pc' = next
                   /\ UNCHANGED <<settleLog, result>>
              ELSE /\ log' = log \o pre \o <<CallEv(fn, args), ThrowEv(fn)>>
                   /\ Throw(fn)
                   /\ UNCHANGED imageData
       ELSE /\ pc' = next
            /\ UNCHANGED <<log, imageData, settleLog, result>>
    /\ UNCHANGED <<mode, settings, img, loads, canvas>>

--------------------------------------------------------------------------
(* Entry points *)

\* new Promise(...): img.src = URL.createObjectURL(file)
Call(m) ==
    /\ pc = "idle"
    /\ mode' = m
    /\ loads' = loads + 1
    /\ pc' = "loading"
    /\ UNCHANGED <<settings, img, canvas, imageData, log, settleLog, result>>

processImage == Call("final")

processImageRealtime == Call("preview")

getImageInfo == Call("info")

\* Faulty variant: an onerror handler that assigns img.src once more before
\* giving up
ImgOnErrorRetry ==
    /\ pc = "loading"
    /\ log' = Append(log, ThrowEv("load"))
    /\ IF loads < 2
       THEN /\ loads' = loads + 1
            /\ pc' = "loading"
            /\ UNCHANGED <<settleLog, result>>
       ELSE /\ Throw("load")
            /\ UNCHANGED loads
    /\ UNCHANGED <<mode, settings, img, canvas, imageData>>

\* img.onerror = () => reject(new Error('Failed to load image'))
ImgOnError ==
    /\ pc = "loading"
    /\ log' = Append(log, ThrowEv("load"))
    /\ Throw("load")
    /\ UNCHANGED <<mode, settings, img, loads, canvas, imageData>>

\* img.onload of getImageInfo: resolve({width, height, size, type})
InfoOnLoad ==
    /\ pc = "loading"
    /\ mode = "info"
    /\ Settle("resolve", [kind |-> "info", width |-> img.width,
                          height |-> img.height])
    /\ pc' = "done"
    /\ UNCHANGED <<mode, settings, img, loads, canvas, imageData, log>>

\* img.onload of processImage / processImageRealtime, up to and including
\* createOptimizedCanvas(width, height), which throws when getContext('2d')
\* returns null
CreateCanvas ==
    /\ pc = "loading"
    /\ mode \in {"preview", "final"}
    /\ \E dims \in WorkingDims(mode, img.width, img.height),
          hasContext \in BOOLEAN :
         IF hasContext
         THEN /\ canvas' = [width |-> dims[1], height |-> dims[2],
                            data |-> NoData]
              /\ log' = log \o <<CallEv("createOptimizedCanvas", dims),
                                 ReturnEv("createOptimizedCanvas")>>
              /\ pc' = "draw"
              /\ UNCHANGED <<settleLog, result>>
         ELSE /\ log' = log \o <<CallEv("createOptimizedCanvas", dims),
                                 ThrowEv("createOptimizedCanvas")>>
              /\ Throw("createOptimizedCanvas")
              /\ UNCHANGED canvas
    /\ UNCHANGED <<mode, settings, img, loads, imageData>>

\* ctx.drawImage(img, 0, 0, width, height); onProgress?.(10)
DrawImage ==
    /\ pc = "draw"
    /\ canvas' = [canvas EXCEPT
                    !.data = DrawnData(img, canvas.width, canvas.height)]
    /\ log' = log \o <<CallEv("drawImage", <<>>), ReturnEv("drawImage")>>
                  \o Emit(mode, 10)
    /\ pc' = "getImageData"
    /\ UNCHANGED <<mode, settings, img, loads, imageData, settleLog, result>>

\* let imageData = ctx.getImageData(0, 0, width, height): throws
\* IndexSizeError for an empty rectangle, and when the buffer cannot be
\* allocated
GetImageData ==
    /\ pc = "getImageData"
    /\ \E returns \in BOOLEAN :
         IF returns /\ canvas.width > 0 /\ canvas.height > 0
         THEN /\ imageData' = canvas
              /\ log' = log \o <<CallEv("getImageData", <<>>),
                                 ReturnEv("getImageData")>>
              /\ pc' = "denoise"
              /\ UNCHANGED <<settleLog, result>>
         ELSE /\ log' = log \o <<CallEv("getImageData", <<>>),
                                 ThrowEv("getImageData")>>
              /\ Throw("getImageData")
              /\ UNCHANGED imageData
    /\ UNCHANGED <<mode, settings, img, loads, canvas>>

--------------------------------------------------------------------------
(* The filter stages of the handler *)

\* if (settings.denoising > 0) { applyBilateralFilter(...); onProgress?.(25) }
Denoise ==
    RunStage("denoise", DenoiseActive(settings), <<>>,
             "applyBilateralFilter", DenoiseArgs(mode, settings.denoising),
             Untracked(imageData), Emit(mode, 25), After(mode, "denoise"))

\* if (settings.useAI) { applyAdvancedAIEnhancement(...); onProgress?.(50) }
\* Step 1 of applyAdvancedAIEnhancement: applyBilateralFilter(.., 3, 25)
AIBilateral ==
    RunStage("ai", AIActive(settings),
             <<CallEv("applyAdvancedAIEnhancement", <<>>)>>,
             "applyBilateralFilter", AIBilateralArgs,
             Untracked(imageData), <<>>,
             IF AIActive(settings) THEN "ai_clahe" ELSE After(mode, "ai"))

\* Step 2: applyCLAHE
AICLAHE ==
    RunStage("ai_clahe", TRUE, <<>>, "applyCLAHE", <<>>,
             Untracked(imageData), <<>>, "ai_details")

\* Step 3: enhanceDetails
AIEnhanceDetails ==
    RunStage("ai_details", TRUE, <<>>, "enhanceDetails", <<>>,
             Untracked(imageData), <<>>, "ai_colors")

\* Step 4: enhanceColors; applyAdvancedAIEnhancement returns and the caller
\* reports 50
AIEnhanceColors ==
    RunStage("ai_colors", TRUE, <<>>, "enhanceColors", <<>>,
             Untracked(imageData),
             <<ReturnEv("applyAdvancedAIEnhancement")>> \o Emit(mode, 50),
             After(mode, "ai"))

\* if (settings.brightness !== 0 || settings.contrast !== 0)
\*   { applyAdvancedToneMapping(...); onProgress?.(65) }
ToneMapping ==
    RunStage("tone", ToneActive(settings), <<>>,
             "applyAdvancedToneMapping",
             <<settings.brightness, settings.contrast>>,
             ToneMapped(imageData, settings.brightness, settings.contrast),
             Emit(mode, 65), After(mode, "tone"))

\* if (settings.saturation !== 0)
\*   { applyAdvancedSaturation(...); onProgress?.(80) }
Saturation ==
    RunStage("saturate", SaturateActive(settings), <<>>,
             "applyAdvancedSaturation", <<settings.saturation>>,
             Saturated(imageData, settings.saturation),
             Emit(mode, 80), After(mode, "saturate"))

\* if (settings.sharpening > 0) { applyUnsharpMask(...); onProgress?.(95) }
UnsharpMask ==
    RunStage("sharpen", SharpenActive(settings), <<>>,
             "applyUnsharpMask", UnsharpArgs(mode, settings.sharpening),
             Untracked(imageData), Emit(mode, 95), After(mode, "sharpen"))

\* ctx.putImageData(imageData, 0, 0); onProgress?.(100)
PutImageData ==
    /\ pc = "put"
    /\ canvas' = [canvas EXCEPT !.data = imageData.data]
    /\ log' = log \o <<CallEv("putImageData", <<>>),
                       ReturnEv("putImageData")>>
                  \o Emit(mode, 100)
    /\ pc' = "encode"
    /\ UNCHANGED <<mode, settings, img, loads, imageData, settleLog, result>>

\* resolve(canvas.toDataURL('image/jpeg', quality)); the encoder may fail
Encode ==
    /\ pc = "encode"
    /\ \E returns \in BOOLEAN :
         IF returns
         THEN /\ log' = log \o <<CallEv("toDataURL", <<>>),
                                 ReturnEv("toDataURL")>>
              /\ Settle("resolve", [kind |-> "image", raster |-> canvas])
              /\ pc' = "done"
         ELSE /\ log' = log \o <<CallEv("toDataURL", <<>>),
                                 ThrowEv("toDataURL")>>
              /\ Throw("toDataURL")
    /\ UNCHANGED <<mode, settings, img, loads, canvas, imageData>>

Next ==
    \/ processImage
    \/ processImageRealtime
    \/ getImageInfo
    \/ ImgOnError
    \/ InfoOnLoad
    \/ CreateCanvas
    \/ DrawImage
    \/ GetImageData
    \/ Denoise
    \/ AIBilateral
    \/ AICLAHE
    \/ AIEnhanceDetails
    \/ AIEnhanceColors
    \/ ToneMapping
    \/ Saturation
    \/ UnsharpMask
    \/ PutImageData
    \/ Encode

--------------------------------------------------------------------------
(* Initial states: the inputs of one invocation *)

SettingsOf(sh, de, br, co, sa, ai) ==
    [sharpening |-> sh, denoising |-> de, brightness |-> br,
     contrast |-> co, saturation |-> sa, useAI |-> ai]

\* const [settings, setSettings] = useState({...}) of the App
DefaultSettings == SettingsOf(40, 30, 5, 15, 10, TRUE)

SourceOf(w, h, data) == [width |-> w, height |-> h, data |-> data]

InitRun ==
    /\ mode = "none"
    /\ pc = "idle"
    /\ loads = 0
    /\ canvas = NoRaster
    /\ imageData = NoRaster
    /\ log = <<>>
    /\ settleLog = <<>>
    /\ result = [kind |-> "none"]

\* the orchestrator over every combination of active and inactive stages
Init ==
    /\ InitRun
    /\ settings \in {SettingsOf(sh, de, br, co, sa, ai) :
                        sh \in {0, 40}, de \in {0, 30}, br \in {-50, 0, 50},
                        co \in {0, 15}, sa \in {-10, 0}, ai \in BOOLEAN}
    /\ img \in {SourceOf(w, h, NoData) : w \in {640, 1078}, h \in {480}}

Spec == Init /\ [][Next]_vars

\* dimensions around the thresholds of the two scale computations
EdgeDims == {1, 2, 100, 750, 751, 799, 800, 801, 999, 1000, 1001, 1078,
             1499, 1500, 1501}

SourceDims == {DimStep * k : k \in 1..MaxDimSteps} \cup EdgeDims

\* the scale computations over a grid of source sizes
InitSizes ==
    /\ InitRun
    /\ settings = DefaultSettings
    /\ img \in {SourceOf(w, h, NoData) : w \in SourceDims, h \in SourceDims}

SpecSizes == InitSizes /\ [][Next]_vars

\* width and height of the flat test image
FlatDims == <<100, 100>>

FlatColours == {<<128, 128, 128>>, <<0, 0, 0>>, <<255, 255, 255>>,
                <<200, 100, 50>>}

FlatImage(colour) ==
    SourceOf(FlatDims[1], FlatDims[2],
             <<[n  |-> FlatDims[1] * FlatDims[2],
                px |-> <<colour[1], colour[2], colour[3], 255>>]>>)

\* end to end on flat opaque sources, with the settings whose effect on the
\* samples is tracked (and the AI chain, after which it no longer is)
InitE2E ==
    /\ InitRun
    /\ settings \in {SettingsOf(0, 0, br, 0, sa, ai) :
                        br \in {-50, 0, 50}, sa \in {0, 10},
                        ai \in BOOLEAN}
    /\ img \in {FlatImage(c) : c \in FlatColours}

SpecE2E == InitE2E /\ [][Next]_vars

--------------------------------------------------------------------------
(* Reading the log *)

FilterFns == {"applyBilateralFilter", "applyCLAHE", "enhanceDetails",
              "enhanceColors", "applyAdvancedToneMapping",
              "applyAdvancedSaturation", "applyUnsharpMask"}

IsProgress(e) == e.ev = "progress"

IsFilterCall(e) == e.ev = "call" /\ e.fn \in FilterFns

\* the values passed to onProgress, in order
Progress ==
    LET p == SelectSeq(log, IsProgress)
    IN  [i \in 1..Len(p) |-> p[i].value]

\* the filter functions called, in order
FilterCalls ==
    LET c == SelectSeq(log, IsFilterCall)
    IN  [i \in 1..Len(c) |-> c[i].fn]

Emitted(value) == \E i \in 1..Len(log) : log[i] = ProgressEv(value)

Threw(fns) ==
    \E i \in 1..Len(log) : log[i].ev = "throw" /\ log[i].fn \in fns

Succeeded == result.kind = "image"

HasCanvas ==
    \E i \in 1..Len(log) : log[i] = ReturnEv("createOptimizedCanvas")

IsPrefix(a, b) == Len(a) <= Len(b) /\ a = SubSeq(b, 1, Len(a))

When(cond, seq) == IF cond THEN seq ELSE <<>>

AIChain == <<"applyBilateralFilter", "applyCLAHE", "enhanceDetails",
             "enhanceColors">>

--------------------------------------------------------------------------
(* Claims about the orchestrator (Spec) *)

Milestones == {10, 25, 50, 65, 80, 95, 100}

\* C1: in a successful processImage run the values passed to the progress
\* callback are non-decreasing, all from {10,25,50,65,80,95,100}, each at
\* most once, and the last one is 100.
C1_ProgressSequence ==
    (mode = "final" /\ Succeeded) =>
        /\ Len(Progress) > 0
        /\ Progress[Len(Progress)] = 100
        /\ \A i \in 1..Len(Progress) : Progress[i] \in Milestones
        /\ \A i, j \in 1..Len(Progress) :
              /\ i < j => Progress[i] <= Progress[j]
              /\ i # j => Progress[i] # Progress[j]

C1_Witness ==
    /\ mode = "final"
    /\ Succeeded
    /\ Progress = <<10, 25, 50, 65, 80, 95, 100>>

\* the call whose return a stage milestone follows
MilestoneStage(value) ==
    CASE value = 10 -> "drawImage"
      [] value = 25 -> "applyBilateralFilter"
      [] value = 50 -> "applyAdvancedAIEnhancement"
      [] value = 65 -> "applyAdvancedToneMapping"
      [] value = 80 -> "applyAdvancedSaturation"
      [] value = 95 -> "applyUnsharpMask"

\* C2: in processImage a stage milestone is reported only directly after its
\* stage has returned, and in a successful run it is reported if and only
\* if its stage is active: 10 always, 25 iff denoising > 0, 50 iff useAI,
\* 65 iff brightness # 0 or contrast # 0, 80 iff saturation # 0, 95 iff
\* sharpening > 0.
C2_MilestoneIffStageActive ==
    mode = "final" =>
        /\ \A i \in 1..Len(log) :
              (log[i].ev = "progress" /\ log[i].value # 100) =>
                  /\ i > 1
                  /\ log[i - 1] = ReturnEv(MilestoneStage(log[i].value))
        /\ Succeeded =>
              /\ Emitted(10)
              /\ Emitted(25) <=> settings.denoising > 0
              /\ Emitted(50) <=> settings.useAI
              /\ Emitted(65) <=>
                    (settings.brightness # 0 \/ settings.contrast # 0)
              /\ Emitted(80) <=> settings.saturation # 0
              /\ Emitted(95) <=> settings.sharpening > 0

C2_Witness ==
    /\ mode = "final"
    /\ Succeeded
    /\ settings.brightness = 0
    /\ settings.contrast # 0
    /\ settings.denoising = 0
    /\ Progress = <<10, 65, 100>>

\* the filter calls a preview with settings s makes, by the claim
ExpectedPreview(s) ==
    When(s.denoising > 0, <<"applyBilateralFilter">>)
    \o When(s.brightness # 0 \/ s.contrast # 0, <<"applyAdvancedToneMapping">>)
    \o When(s.saturation # 0, <<"applyAdvancedSaturation">>)
    \o When(s.sharpening > 0, <<"applyUnsharpMask">>)
    \o When(s.useAI, AIChain)

\* the AI chain opens with applyBilateralFilter(.., 3, 25)
AIChainOpensWithBilateral ==
    \A i \in 1..Len(log) :
        (log[i] = CallEv("applyAdvancedAIEnhancement", <<>>) /\ i < Len(log))
            => log[i + 1] = CallEv("applyBilateralFilter", <<3000, 25000>>)

\* C3: in processImageRealtime the stages that run are exactly the active
\* ones, in the order Bilateral, Tone Map, Saturate, Unsharp, AI chain, the
\* AI chain being Bilateral(3,25), CLAHE, enhanceDetails, enhanceColors.
C3_PreviewOrder ==
    mode = "preview" =>
        /\ IsPrefix(FilterCalls, ExpectedPreview(settings))
        /\ Succeeded => FilterCalls = ExpectedPreview(settings)
        /\ AIChainOpensWithBilateral

C3_Witness ==
    /\ mode = "preview"
    /\ Succeeded
    /\ FilterCalls = <<"applyBilateralFilter", "applyAdvancedToneMapping",
                       "applyAdvancedSaturation", "applyUnsharpMask">>
                     \o AIChain

\* the filter calls a final run with settings s makes, by the claim
ExpectedFinal(s) ==
    When(s.denoising > 0, <<"applyBilateralFilter">>)
    \o When(s.useAI, AIChain)
    \o When(s.brightness # 0 \/ s.contrast # 0, <<"applyAdvancedToneMapping">>)
    \o When(s.saturation # 0, <<"applyAdvancedSaturation">>)
    \o When(s.sharpening > 0, <<"applyUnsharpMask">>)

\* C4: in processImage the active stages run in the order Bilateral, AI
\* chain, Tone Map, Saturate, Unsharp, each at most once and only when its
\* setting is active.
C4_FinalOrder ==
    mode = "final" =>
        /\ IsPrefix(FilterCalls, ExpectedFinal(settings))
        /\ Succeeded => FilterCalls = ExpectedFinal(settings)

C4_Witness ==
    /\ mode = "final"
    /\ Succeeded
    /\ FilterCalls = <<"applyBilateralFilter">> \o AIChain
                     \o <<"applyAdvancedToneMapping",
                          "applyAdvancedSaturation", "applyUnsharpMask">>

\* C5: when a filter stage throws in processImage or processImageRealtime
\* the promise is rejected, once, and never resolved with an image; the
\* throw is the last thing the invocation does (no later stage runs) and
\* the stage that threw was called once (no retry).
C5_StageFailureAborts ==
    (mode \in {"preview", "final"} /\ Threw(FilterFns)) =>
        /\ pc = "done"
        /\ settleLog = <<"reject">>
        /\ result.kind = "error"
        /\ log[Len(log)].ev = "throw"
        /\ Cardinality({i \in 1..Len(log) : log[i].ev = "throw"}) = 1
        /\ Cardinality({i \in 1..Len(log) : log[i] = log[Len(log) - 1]}) = 1

C5_Witness ==
    /\ mode = "final"
    /\ Threw({"applyAdvancedToneMapping"})
    /\ FilterCalls = <<"applyBilateralFilter">> \o AIChain
                     \o <<"applyAdvancedToneMapping">>
    /\ result.kind = "error"

\* C6: when the source fails to load, or the 2D context is unavailable, the
\* call is rejected, no filter stage has run, nothing was reported to the
\* progress callback and the load was attempted once.
C6_LoadOrContextFailure ==
    Threw({"load", "createOptimizedCanvas"}) =>
        /\ pc = "done"
        /\ settleLog = <<"reject">>
        /\ result.kind = "error"
        /\ FilterCalls = <<>>
        /\ Progress = <<>>
        /\ loads = 1

C6_Witness ==
    /\ mode = "final"
    /\ Threw({"createOptimizedCanvas"})
    /\ result.kind = "error"

--------------------------------------------------------------------------
(* Claims about the end-to-end result on flat sources (SpecE2E) *)

AllOff == settings = SettingsOf(0, 0, 0, 0, 0, FALSE)

BrightnessOnly == settings = SettingsOf(0, 0, 50, 0, 0, FALSE)

Flat128 == img = FlatImage(<<128, 128, 128>>)

\* every pixel of the raster is px
Uniform(r, px) == r.data = <<[n |-> r.width * r.height, px |-> px]>>

\* C7 as stated: with every setting off, the raster the pipeline produces
\* for the 100x100 flat (128,128,128) source has the width, the height and
\* every sample of the source.
C7_IdentityAsStated ==
    (AllOff /\ Flat128 /\ Succeeded) =>
        /\ result.raster.width = img.width
        /\ result.raster.height = img.height
        /\ result.raster.data = img.data

\* C7, amended: with every setting off and the 100x100 flat (128,128,128)
\* source, processImageRealtime produces a raster equal to the source in
\* width, height and every sample; processImage produces the source scaled
\* by 2, a 200x200 raster whose every sample has the source's value.
C7_IdentityUpToUpscale ==
    (AllOff /\ Flat128 /\ Succeeded) =>
        IF mode = "preview"
        THEN /\ result.raster.width = img.width
             /\ result.raster.height = img.height
             /\ result.raster.data = img.data
        ELSE /\ result.raster.width = 200
             /\ result.raster.height = 200
             /\ Uniform(result.raster, <<128, 128, 128, 255>>)

C7_Witness ==
    /\ AllOff
    /\ Flat128
    /\ Succeeded
    /\ mode = "preview"
    /\ result.raster.width = 100
    /\ Uniform(result.raster, <<128, 128, 128, 255>>)

\* C8: with brightness = 50 and every other setting off, the output for the
\* flat (128,128,128) source is uniform and exceeds 128 in every RGB channel.
C8_BrightnessRaisesFlat ==
    (BrightnessOnly /\ Flat128 /\ Succeeded) =>
        \E v \in 129..255 : Uniform(result.raster, <<v, v, v, 255>>)

\* C26: in a processImage run whose promise rejects, whichever step failed,
\* 100 has not been passed to the progress callback.
C26_HundredOnlyOnSuccess ==
    (mode = "final" /\ result.kind = "error") => ~Emitted(100)

--------------------------------------------------------------------------
(* Claims about the working-raster dimensions (SpecSizes) *)

\* c is Math.floor(d * num / den) as the doubles compute it: the floor, or
\* one less where the product is an integer that the doubles fall short of
ScaledBy(c, d, s) ==
    /\ 0 <= d * s[1] - c * s[2]
    /\ d * s[1] - c * s[2] <= s[2]

\* s is the least of the fractions in S
LeastOf(s, S) == s \in S /\ \A t \in S : s[1] * t[2] <= t[1] * s[2]

\* C9: in preview mode the working raster has max(width, height) <= 800, is
\* not larger than the source in either dimension, keeps the dimensions of
\* a source already within 800, and both dimensions come from the one scale
\* factor min(800 / srcWidth, 800 / srcHeight, 1).
C9_PreviewDims ==
    (mode = "preview" /\ HasCanvas) =>
        /\ Max(canvas.width, canvas.height) <= 800
        /\ canvas.width <= img.width
        /\ canvas.height <= img.height
        /\ (img.width <= 800 /\ img.height <= 800) =>
              (canvas.width = img.width /\ canvas.height = img.height)
        /\ \E s \in {<<800, img.width>>, <<800, img.height>>, <<1, 1>>} :
              /\ LeastOf(s, {<<800, img.width>>, <<800, img.height>>,
                             <<1, 1>>})
              /\ ScaledBy(canvas.width, img.width, s)
              /\ ScaledBy(canvas.height, img.height, s)

C9_Witness ==
    /\ mode = "preview"
    /\ HasCanvas
    /\ img.width = 2000
    /\ img.height = 1000
    /\ canvas.width = 800
    /\ canvas.height = 400

\* C10: in final mode a source of less than 1,000,000 px is scaled by one
\* factor of at most 2 and the working raster has max(width, height) <= 1500;
\* a source of 1,000,000 px or more keeps its dimensions.
C10_FinalDims ==
    (mode = "final" /\ HasCanvas) =>
        IF img.width * img.height < 1000000
        THEN /\ Max(canvas.width, canvas.height) <= 1500
             /\ \E s \in {<<2, 1>>, <<1500, Max(img.width, img.height)>>} :
                   /\ s[1] <= 2 * s[2]
                   /\ ScaledBy(canvas.width, img.width, s)
                   /\ ScaledBy(canvas.height, img.height, s)
        ELSE /\ canvas.width = img.width
             /\ canvas.height = img.height

C10_Witness ==
    /\ mode = "final"
    /\ HasCanvas
    /\ img.width = 500
    /\ img.height = 500
    /\ canvas.width = 1000
    /\ canvas.height = 1000

\* C27: in final mode the working raster is at least as wide and as high
\* as the source, for every source size.
C27_FinalNeverSmaller ==
    (mode = "final" /\ HasCanvas) =>
        /\ canvas.width >= img.width
        /\ canvas.height >= img.height

\* C28: for every source of width and height at least 1 the working raster
\* of either mode has width and height at least 1, and the buffer the
\* stages work on has the width and the height of the canvas.
C28_WorkingRasterNonEmpty ==
    (mode \in {"preview", "final"} /\ HasCanvas) =>
        /\ canvas.width >= 1
        /\ canvas.height >= 1
        /\ imageData # NoRaster =>
              /\ imageData.width = canvas.width
              /\ imageData.height = canvas.height

--------------------------------------------------------------------------
(* Doubles as fixed-point numbers *)

(* The filters below compute in doubles.  Where the code's arithmetic is   *)
(* rational it is carried here as exact fractions.  Math.exp is carried as *)
(* a fixed-point number with FixBits fractional bits, computed by range    *)
(* reduction and a Taylor polynomial; ExpNeg is within 4 units of          *)
(* 2^-FixBits of the true value.  A value so computed that is stored into  *)
(* a Uint8ClampedArray is rounded by the array; when the error bound does  *)
(* not decide the rounding, every value it admits is an outcome (Stored).  *)

FixBits == 22

FixOne == 2 ^ FixBits

\* a * b / FixOne for fixed-point a, b >= 0, by half words so that no
\* intermediate product leaves 32 bits
MulFix(a, b) ==
    LET half == 2 ^ (FixBits \div 2)
        ah   == a \div half
        al   == a % half
        bh   == b \div half
        bl   == b % half
    IN  ah * bh + (ah * bl + al * bh) \div half + (al * bl) \div FixOne

\* floor(rem * 2^k / q) for 0 <= rem < q, one bit at a time
RECURSIVE FracBits(_, _, _)
FracBits(rem, q, k) ==
    IF k = 0
    THEN 0
    ELSE LET bit == IF 2 * rem >= q THEN 1 ELSE 0
         IN  bit * 2 ^ (k - 1) + FracBits(2 * rem - bit * q, q, k - 1)

\* the fraction p/q >= 0 as a fixed-point number
ToFix(p, q) == (p \div q) * FixOne + FracBits(p % q, q, FixBits)

\* exp(-u) for fixed-point 0 <= u <= 1/2: the terms of degree n..9 of the
\* Taylor polynomial, in Horner form
RECURSIVE ExpTaylor(_, _)
ExpTaylor(u, n) ==
    IF n > 9
    THEN FixOne
    ELSE FixOne - MulFix(u, ExpTaylor(u, n + 1)) \div n

RECURSIVE Squared(_, _)
Squared(y, k) == IF k = 0 THEN y ELSE Squared(MulFix(y, y), k - 1)

\* exp(-t) for fixed-point t >= 0: exp(-t / 2^k) squared k times, k the
\* least number of halvings that brings t to at most 1/2
RECURSIVE ExpNegFix(_, _)
ExpNegFix(t, k) ==
    IF t > FixOne \div 2
    THEN ExpNegFix(t \div 2, k + 1)
    ELSE Squared(ExpTaylor(t, 1), k)

\* Math.exp(-p / q) for integers p >= 0, q > 0, as a fixed-point number;
\* from p / q = 16 on exp(-p / q) is below half a unit of 2^-FixBits
ExpNeg(p, q) ==
    IF p \div q >= 16 THEN 0 ELSE ExpNegFix(ToFix(p, q), 0)

--------------------------------------------------------------------------
(* Kernel generator *)

Min(a, b) == IF a <= b THEN a ELSE b

RECURSIVE SumSeq(_)
SumSeq(s) == IF s = <<>> THEN 0 ELSE Head(s) + SumSeq(Tail(s))

\* Math.ceil(radius * 6), radius in thousandths
CeilSixfold(radius) == (6 * radius + 999) \div 1000

\* Faulty variant: the kernel size taken without forcing it odd
KernelSizeAnyParity(radius) == Max(3, CeilSixfold(radius))

\* const size = Math.max(3, Math.ceil(radius * 6) | 1)
KernelSize(radius) ==
    LET c == CeilSixfold(radius)
    IN  Max(3, IF c % 2 = 0 THEN c + 1 ELSE c)

\* generateGaussianKernel(radius), radius in thousandths.  With
\* sigma = radius / 3 the entry at offset x from the centre is
\* exp(-(x * x) / (2 * sigma * sigma)) = exp(-(9000000 * x * x) /
\* (2 * radius * radius)); the entries are then divided by their sum.
\* The kernel is held as the entries before the division (fixed-point)
\* together with the divisor: entry i of the code's kernel is
\* weights[i] / sum.
generateGaussianKernel(radius) ==
    LET size   == KernelSize(radius)
        center == size \div 2
        w      == [i \in 1..size |->
                     ExpNeg(9000000 * (i - 1 - center) * (i - 1 - center),
                            2 * radius * radius)] \o <<>>
    IN  [weights |-> w, sum |-> SumSeq(w)]

--------------------------------------------------------------------------
(* One call of a function of the class, outside the orchestrator: the      *)
(* arguments of the call are drawn by the initial state (settings holds    *)
(* the scalar arguments, img the raster argument), the action makes the    *)
(* call, and result holds what it returned.                                *)

\* the call fn(args) returning value
Returned(fn, args, value) ==
    /\ pc = "idle"
    /\ log' = log \o <<CallEv(fn, args), ReturnEv(fn)>>
    /\ result' = value
    /\ pc' = "done"
    /\ UNCHANGED <<mode, settings, img, loads, canvas, imageData, settleLog>>

Called(fn) == pc = "done" /\ log[1].fn = fn

\* radii of SpecKernel, in thousandths: the multiples of RadiusStep up to
\* RadiusStep * MaxRadiusSteps, and the radii around a change of kernel size
RadiusStep == 25

MaxRadiusSteps == 160

KernelCall ==
    Returned("generateGaussianKernel", <<settings.radius>>,
             [kind |-> "kernel",
              kernel |-> generateGaussianKernel(settings.radius)])

InitKernel ==
    /\ InitRun
    /\ img = NoRaster
    /\ settings \in
          {[radius |-> r] :
              r \in {RadiusStep * k : k \in 1..MaxRadiusSteps}
                    \cup {1, 2, 333, 334, 499, 500, 501, 666, 667, 999, 1000,
                          1001}}

SpecKernel == InitKernel /\ [][KernelCall]_vars

\* C12: for any radius > 0 the kernel has odd length >= 3, equal to
\* max(3, next-odd(ceil(radius * 6))); its weights are non-negative, sum to
\* 1 and are symmetric about the centre.
C12_KernelShape ==
    Called("generateGaussianKernel") =>
        LET w       == result.kernel.weights
            size    == Len(w)
            ceil6   == CHOOSE n \in 0..(6 * settings.radius) :
                          /\ 1000 * n >= 6 * settings.radius
                          /\ 1000 * (n - 1) < 6 * settings.radius
            nextOdd == CHOOSE n \in {ceil6, ceil6 + 1} : n % 2 = 1
        IN  /\ size % 2 = 1
            /\ size >= 3
            /\ size = Max(3, nextOdd)
            /\ \A i \in 1..size : w[i] >= 0
            \* the entries weights[i] / sum add up to 1
            /\ result.kernel.sum > 0
            /\ SumSeq(w) = result.kernel.sum
            /\ \A i \in 1..size : w[i] = w[size + 1 - i]

\* a kernel longer than the minimum, with weights off the centre
C12_Witness ==
    /\ Called("generateGaussianKernel")
    /\ settings.radius = 1000
    /\ Len(result.kernel.weights) = 7
    /\ result.kernel.weights[3] > 0
    /\ result.kernel.weights[3] < result.kernel.weights[4]

--------------------------------------------------------------------------
(* Pixel buffers of the filters *)

\* the pixels of a raster, row-major, one <<r, g, b, a>> per pixel
Pixels(r) == [i \in 1..(r.width * r.height) |-> PixelAt(r.data, i)] \o <<>>

\* the run-length form of a pixel sequence
Runs(pixels) ==
    LET starts == Ascending({i \in 1..Len(pixels) :
                                i = 1 \/ pixels[i] # pixels[i - 1]})
    IN  [k \in 1..Len(starts) |->
           [n  |-> (IF k < Len(starts) THEN starts[k + 1]
                    ELSE Len(pixels) + 1) - starts[k],
            px |-> pixels[starts[k]]]]

\* new ImageData(pixels, width, height)
RasterOf(width, height, pixels) ==
    [width |-> width, height |-> height, data |-> Runs(pixels)]

\* the sequences that take their i-th element from the i-th set of cands
RECURSIVE Choices(_)
Choices(cands) ==
    IF cands = <<>>
    THEN {<<>>}
    ELSE {<<h>> \o t : h \in Head(cands), t \in Choices(Tail(cands))}

Clamped(k) == Max(0, Min(255, k))

\* What a Uint8ClampedArray holds after the assignment of a double x with
\* |x - num / den| <= slack / den (den > 0): x clamped to [0, 255] and
\* rounded to the nearest integer, a tie going to the even one.  With
\* slack = 0 the double is num / den itself; otherwise every integer some
\* x of the interval rounds to is an outcome.
Stored(num, den, slack) ==
    LET lo == - ((den - 2 * (num - slack)) \div (2 * den))
        hi == (2 * (num + slack) + den) \div (2 * den)
    IN  IF slack = 0 /\ lo < hi
        THEN {Clamped(CHOOSE k \in {lo, hi} : k % 2 = 0)}
        ELSE Clamped(lo)..Clamped(hi)

\* the pixels <<r, g, b, alpha>> with r, g, b from the three sets of rgb
\* Faulty variant: the samples written into a buffer whose alpha is opaque
PixelChoicesOpaque(rgb, alpha) ==
    {<<r, g, b, 255>> : r \in rgb[1], g \in rgb[2], b \in rgb[3]}

PixelChoices(rgb, alpha) ==
    {<<r, g, b, alpha>> : r \in rgb[1], g \in rgb[2], b \in rgb[3]}

RECURSIVE Dot(_, _)
Dot(a, b) ==
    IF a = <<>> THEN 0 ELSE Head(a) * Head(b) + Dot(Tail(a), Tail(b))

RECURSIVE Largest(_)
Largest(s) == IF Len(s) = 1 THEN s[1] ELSE Max(Head(s), Largest(Tail(s)))

RECURSIVE Smallest(_)
Smallest(s) == IF Len(s) = 1 THEN s[1] ELSE Min(Head(s), Smallest(Tail(s)))

--------------------------------------------------------------------------
(* Separable Gaussian blur *)

\* the weights of a weighted average are carried with TapBits fractional
\* bits, so that the sums over a window stay within 32 bits; each is then
\* within TapError units of the weight the code uses
TapBits == 17

TapError == 2

TapWeight(w) == w \div 2 ^ (FixBits - TapBits)

\* sum / weightSum for the samples vals under the weights wts, stored into
\* the Uint8ClampedArray.  An error of e in each weight moves the quotient
\* by at most e * Len(vals) * (max - min of vals) / (weightSum - e * Len),
\* which is below twice e * Len * (max - min) / weightSum.
\* Faulty variant: the sum divided by the weight of the whole kernel, as if
\* the taps outside the image were zeros
AverageZeroPadded(vals, wts, whole) ==
    Stored(Dot(vals, wts), whole,
           2 * TapError * Len(vals) * (Largest(vals) - Smallest(vals)))

WeightedAverage(vals, wts, whole) ==
    Stored(Dot(vals, wts), SumSeq(wts),
           2 * TapError * Len(vals) * (Largest(vals) - Smallest(vals)))

\* one sample of one pass of gaussianBlur: channel c of pixel i (from 1),
\* along the rows (horizontal) or the columns.  The taps k with
\* 0 <= position + k - halfKernel < extent are the ones summed.
BlurSample(px, width, height, kernel, horizontal, i, c) ==
    LET x      == (i - 1) % width
        y      == (i - 1) \div width
        size   == Len(kernel)
        half   == size \div 2
        pos    == IF horizontal THEN x ELSE y
        extent == IF horizontal THEN width ELSE height
        first  == Max(0, half - pos)
        last   == Min(size - 1, half + extent - 1 - pos)
        At(k)  == IF horizontal
                  THEN y * width + (x + k - half) + 1
                  ELSE (y + k - half) * width + x + 1
        vals   == [j \in 1..(last - first + 1) |->
                     px[At(first + j - 1)][c]] \o <<>>
        wts    == [j \in 1..(last - first + 1) |->
                     kernel[first + j]] \o <<>>
    IN  WeightedAverage(vals, wts, SumSeq(kernel))

\* one pass over the buffer: the buffers it can leave
BlurPass(px, width, height, kernel, horizontal) ==
    Choices([i \in 1..Len(px) |->
               PixelChoices(
                 [c \in 1..3 |->
                    BlurSample(px, width, height, kernel, horizontal, i, c)],
                 px[i][4])] \o <<>>)

\* gaussianBlur(imageData, width, height, radius): the horizontal pass
\* into tempData, the vertical pass from tempData into outputData, alpha
\* copied by both.  The rasters the call can return.
gaussianBlur(r, radius) ==
    LET k      == generateGaussianKernel(radius).weights
        kernel == [i \in 1..Len(k) |-> TapWeight(k[i])] \o <<>>
        temps  == BlurPass(Pixels(r), r.width, r.height, kernel, TRUE)
    IN  {RasterOf(r.width, r.height, out) :
            out \in UNION {BlurPass(t, r.width, r.height, kernel, FALSE) :
                              t \in temps}}

\* test rasters: the pixels of cycle repeated in row-major order
Tiled(width, height, cycle) ==
    RasterOf(width, height,
             [i \in 1..(width * height) |->
                cycle[((i - 1) % Len(cycle)) + 1]])

\* width and height of the rasters of the filter specifications go up to
\* MaxSide
MaxSide == 4

\* one colour under three different alpha values
OneColour(c) ==
    <<<<c[1], c[2], c[3], 255>>, <<c[1], c[2], c[3], 0>>,
      <<c[1], c[2], c[3], 77>>>>

\* pixels that differ in colour and in alpha
Mixed == {<<<<10, 20, 30, 255>>, <<200, 100, 0, 7>>>>,
          <<<<0, 0, 0, 0>>, <<250, 255, 245, 1>>, <<90, 91, 92, 93>>>>,
          <<<<120, 130, 140, 255>>, <<124, 126, 150, 200>>,
            <<119, 140, 135, 3>>, <<131, 128, 160, 64>>,
            <<122, 133, 90, 0>>>>}

\* arguments and raster of one filter call
InitFilter(args, rasters) ==
    /\ mode = "none"
    /\ pc = "idle"
    /\ loads = 0
    /\ canvas = NoRaster
    /\ log = <<>>
    /\ settleLog = <<>>
    /\ result = [kind |-> "none"]
    /\ settings \in args
    /\ img \in rasters
    /\ imageData = img

BlurCall ==
    /\ pc = "idle"
    /\ \E out \in gaussianBlur(imageData, settings.radius) :
          Returned("gaussianBlur", <<settings.radius>>,
                   [kind |-> "raster", raster |-> out])

InitBlur ==
    InitFilter({[radius |-> r] : r \in {500, 1000, 2000, 3200}},
               {Tiled(w, h, cycle) :
                   w \in 1..MaxSide, h \in 1..MaxSide,
                   cycle \in Mixed
                      \cup {OneColour(c) :
                               c \in {<<0, 0, 0>>, <<255, 255, 255>>,
                                      <<200, 100, 50>>, <<1, 2, 251>>}}})

SpecBlur == InitBlur /\ [][BlurCall]_vars

\* every pixel of the raster has the RGB samples of the first one
FlatRGB(r) ==
    \A k \in 1..Len(r.data) :
        \A c \in 1..3 : r.data[k].px[c] = r.data[1].px[c]

\* C13: blurring a raster whose RGB samples are one constant colour returns
\* a raster of the same dimensions with the same samples everywhere, for
\* every radius and size, borders included.
C13_FlatBlurUnchanged ==
    Called("gaussianBlur") /\ FlatRGB(img) => result.raster = img

\* a flat raster narrower than the kernel (every pixel loses taps at the
\* border), under a kernel with weight off the centre
C13_Witness ==
    /\ Called("gaussianBlur")
    /\ settings.radius = 2000
    /\ img = Tiled(3, 4, OneColour(<<200, 100, 50>>))
    /\ result.raster = img

--------------------------------------------------------------------------
(* Unsharp mask *)

Abs(n) == IF n < 0 THEN -n ELSE n

\* Faulty variant: the threshold test written with >=
OverThresholdInclusive(diff, threshold) == 1000 * Abs(diff) >= threshold

\* if (Math.abs(diff) > threshold), threshold in thousandths
OverThreshold(diff, threshold) == 1000 * Abs(diff) > threshold

\* Faulty variant: the residual added to the blurred sample
SharpenedFromBlurred(original, blurred, amount) ==
    Stored(4 * (1000 * blurred + (original - blurred) * amount), 4000,
           IF IsDyadic(amount, 1000) THEN 0 ELSE 1)

\* const sharpened = original + (diff * amount), amount in thousandths;
\* outputData[i + c] = Math.min(255, Math.max(0, sharpened)).  The exact
\* value is a multiple of 1/1000; when the double holding amount is not
\* exact, a value halfway between two integers can be stored as either.
Sharpened(original, blurred, amount) ==
    Stored(4 * (1000 * original + (original - blurred) * amount), 4000,
           IF IsDyadic(amount, 1000) THEN 0 ELSE 1)

\* the loop of applyUnsharpMask over the samples, given the raster that
\* gaussianBlur returned: the rasters the call can return
UnsharpFrom(r, blurred, amount, threshold) ==
    LET px == Pixels(r)
        bl == Pixels(blurred)
        Sample(i, c) ==
            IF OverThreshold(px[i][c] - bl[i][c], threshold)
            THEN Sharpened(px[i][c], bl[i][c], amount)
            ELSE {px[i][c]}
    IN  {RasterOf(r.width, r.height, out) :
            out \in Choices([i \in 1..Len(px) |->
                       PixelChoices([c \in 1..3 |-> Sample(i, c)],
                                    px[i][4])] \o <<>>)}

\* applyUnsharpMask(imageData, width, height, amount, radius, threshold)
applyUnsharpMask(r, amount, radius, threshold) ==
    UNION {UnsharpFrom(r, blurred, amount, threshold) :
              blurred \in gaussianBlur(r, radius)}

\* Two calls on the same raster with the same radius and threshold and the
\* amounts settings.amounts[1], settings.amounts[2].  gaussianBlur is a
\* function of its arguments, so the second call blurs to the raster the
\* first one did, and with equal amounts returns what the first one did.
UnsharpCall ==
    /\ pc = "idle"
    /\ \E blurred \in gaussianBlur(imageData, settings.radius) :
         \E out \in UnsharpFrom(imageData, blurred, settings.amounts[1],
                                settings.threshold) :
            result' = [kind |-> "raster", raster |-> out,
                       blurred |-> blurred]
    /\ log' = log \o <<CallEv("applyUnsharpMask",
                              <<settings.amounts[1], settings.radius,
                                settings.threshold>>),
                       ReturnEv("applyUnsharpMask")>>
    /\ pc' = "again"
    /\ UNCHANGED <<mode, settings, img, loads, canvas, imageData, settleLog>>

UnsharpAgain ==
    /\ pc = "again"
    /\ \E out \in IF settings.amounts[2] = settings.amounts[1]
                  THEN {result.raster}
                  ELSE UnsharpFrom(imageData, result.blurred,
                                   settings.amounts[2], settings.threshold) :
          result' = [kind |-> "raster", raster |-> out,
                     blurred |-> result.blurred, previous |-> result.raster]
    /\ log' = log \o <<CallEv("applyUnsharpMask",
                              <<settings.amounts[2], settings.radius,
                                settings.threshold>>),
                       ReturnEv("applyUnsharpMask")>>
    /\ pc' = "done"
    /\ UNCHANGED <<mode, settings, img, loads, canvas, imageData, settleLog>>

NextUnsharp == UnsharpCall \/ UnsharpAgain

InitUnsharp ==
    InitFilter({[amounts |-> <<a1, a2>>, radius |-> r, threshold |-> t] :
                   a1 \in {0, 500, 1300}, a2 \in {1300, 2200, 4000},
                   r \in {1000, 2000}, t \in {0, 2000, 3000}},
               {Tiled(w, h, cycle) :
                   w \in 2..MaxSide, h \in 1..2, cycle \in Mixed})

SpecUnsharp == InitUnsharp /\ [][NextUnsharp]_vars

\* the amount of the latest call of applyUnsharpMask
LatestAmount == log[Len(log) - 1].args[1]

UnsharpReturned == pc \in {"again", "done"} /\ log[1].fn = "applyUnsharpMask"

\* RGB sample c of pixel i of a raster
SampleAt(r, i, c) == PixelAt(r.data, i)[c]

Samples(r) == (1..(r.width * r.height)) \X (1..3)

\* C14: unsharp mask with amount = 0 returns a raster equal to its input,
\* for every raster, radius and threshold; and for any amount every RGB
\* sample whose |original - blurred| is not greater than the threshold is
\* returned unchanged.
C14_UnsharpIdentity ==
    UnsharpReturned =>
        /\ LatestAmount = 0 => result.raster = img
        /\ \A s \in Samples(img) :
              1000 * Abs(SampleAt(img, s[1], s[2])
                         - SampleAt(result.blurred, s[1], s[2]))
                  <= settings.threshold
              => SampleAt(result.raster, s[1], s[2])
                     = SampleAt(img, s[1], s[2])

\* a call with amount 0 on a raster the blur changes by more than the
\* threshold, and a call with a positive amount that changes some samples
\* and leaves a sample at the threshold alone
C14_Witness ==
    /\ pc = "done"
    /\ log[1].fn = "applyUnsharpMask"
    /\ settings.amounts[1] = 0
    /\ result.previous = img
    /\ result.raster # img
    /\ settings.threshold > 0
    /\ \E s \in Samples(img) :
          1000 * Abs(SampleAt(img, s[1], s[2])
                     - SampleAt(result.blurred, s[1], s[2]))
              > settings.threshold
    /\ \E s \in Samples(img) :
          /\ 1000 * Abs(SampleAt(img, s[1], s[2])
                        - SampleAt(result.blurred, s[1], s[2]))
                 = settings.threshold
          /\ SampleAt(result.raster, s[1], s[2]) = SampleAt(img, s[1], s[2])

\* the samples over the threshold that neither call stored as 0 or 255
Unclamped(s) ==
    /\ OverThreshold(SampleAt(img, s[1], s[2])
                     - SampleAt(result.blurred, s[1], s[2]),
                     settings.threshold)
    /\ SampleAt(result.previous, s[1], s[2]) \notin {0, 255}
    /\ SampleAt(result.raster, s[1], s[2]) \notin {0, 255}

\* C15: for a fixed raster, radius and threshold, at every RGB sample over
\* the threshold whose output is not clamped at 0 or 255, |output -
\* original| does not decrease when the amount grows.
C15_UnsharpMonotone ==
    (pc = "done" /\ log[1].fn = "applyUnsharpMask"
                 /\ settings.amounts[1] <= settings.amounts[2]) =>
        \A s \in Samples(img) :
            Unclamped(s) =>
                Abs(SampleAt(result.previous, s[1], s[2])
                    - SampleAt(img, s[1], s[2]))
                  <= Abs(SampleAt(result.raster, s[1], s[2])
                         - SampleAt(img, s[1], s[2]))

\* two positive amounts, an unclamped sample that the larger amount moved
\* strictly further, upwards, and one it moved further downwards
C15_Witness ==
    /\ pc = "done"
    /\ log[1].fn = "applyUnsharpMask"
    /\ 0 < settings.amounts[1]
    /\ settings.amounts[1] < settings.amounts[2]
    /\ \E s \in Samples(img) :
          /\ Unclamped(s)
          /\ SampleAt(img, s[1], s[2]) < SampleAt(result.previous, s[1], s[2])
          /\ SampleAt(result.previous, s[1], s[2])
                < SampleAt(result.raster, s[1], s[2])
    /\ \E s \in Samples(img) :
          /\ Unclamped(s)
          /\ SampleAt(img, s[1], s[2]) > SampleAt(result.previous, s[1], s[2])
          /\ SampleAt(result.previous, s[1], s[2])
                > SampleAt(result.raster, s[1], s[2])

--------------------------------------------------------------------------
(* Saturation adjuster *)

\* the call fn(imageData, args) of a filter that writes into the buffer of
\* its argument and returns the argument
ReturnedInPlace(fn, args, out) ==
    /\ pc = "idle"
    /\ log' = log \o <<CallEv(fn, args), ReturnEv(fn)>>
    /\ imageData' = out
    /\ result' = [kind |-> "raster", raster |-> out]
    /\ pc' = "done"
    /\ UNCHANGED <<mode, settings, img, loads, canvas, settleLog>>

\* Faulty variant: the ramp taken from h * 6 without the remainder
HueRampNoWrap(xn, d) == d - Abs(xn - d)

\* 1 - Math.abs((h * 6) % 2 - 1), for h * 6 = xn / d, as a multiple of 1/d
HueRamp(xn, d) == d - Abs((xn % (2 * d)) - d)

\* Faulty variant: the turn of 6 added whenever red is the largest sample
HueSixthsAlwaysWrapped(px) ==
    LET M == Max(px[1], Max(px[2], px[3]))
        D == M - Min(px[1], Min(px[2], px[3]))
    IN  CASE M = px[1] -> (px[2] - px[3]) + 6 * D
          [] M = px[2] -> (px[3] - px[1]) + 2 * D
          [] OTHER     -> (px[1] - px[2]) + 4 * D

\* h * 6 of a pixel whose samples are not all equal, as a multiple of 1 / D
\* for D the largest sample minus the smallest: the if / else if chain on
\* max === r, max === g, max === b
HueSixths(px) ==
    LET M == Max(px[1], Max(px[2], px[3]))
        D == M - Min(px[1], Min(px[2], px[3]))
    IN  CASE M = px[1] -> (px[2] - px[3])
                            + (IF px[2] < px[3] THEN 6 * D ELSE 0)
          [] M = px[2] -> (px[3] - px[1]) + 2 * D
          [] OTHER     -> (px[1] - px[2]) + 4 * D

\* const hSector = Math.floor(h * 6)
hSector(px) ==
    LET D == Max(px[1], Max(px[2], px[3])) - Min(px[1], Min(px[2], px[3]))
    IN  HueSixths(px) \div D

\* Faulty variant: saturation applied as a gain on every sample
SaturatedByGain(px, saturation) ==
    PixelChoices([c \in 1..3 |-> Stored(4 * px[c] * (saturation + 100),
                                        400, 1)], px[4])

\* The body of the loop of applyAdvancedSaturation for one pixel with
\* samples R, G, B: the pixels it can leave in the buffer.  With M, m the
\* largest and the smallest sample, D = M - m and S = M + m the code has
\*   max - min = D / 255,  l = S / 510,  s = D / S or D / (510 - S),
\*   h * 6 = xn / D with xn as below,
\*   c * 255 = min(D * factor, 255 - |S - 255|) = cn / 100,
\*   x * 255 = c * 255 * HueRamp / D,  m * 255 = (100 * S - cn) / 200.
\* The three stored values are fractions of integers; the doubles are within
\* rounding of them, so a value halfway between two integers can be stored
\* as either.
SaturatedPixel(px, saturation) ==
    LET M  == Max(px[1], Max(px[2], px[3]))
        m  == Min(px[1], Min(px[2], px[3]))
        D  == M - m
        S  == M + m
        cn == Min(D * Max(0, saturation + 100), 100 * (255 - Abs(S - 255)))
        xn == HueSixths(px)
        hi  == Stored(4 * (100 * S + cn), 800, 1)
        mid == Stored(4 * (2 * cn * HueRamp(xn, D) + D * (100 * S - cn)),
                      800 * D, 1)
        lo  == Stored(4 * (100 * S - cn), 800, 1)
        \* switch (hSector); without a matching case rPrime, gPrime and
        \* bPrime keep their initial 0
        sector == IF D = 0 THEN 0 ELSE hSector(px)
    IN  IF D = 0
        THEN {px}   \* if (diff === 0) continue
        ELSE PixelChoices(
               CASE sector = 0 -> <<hi, mid, lo>>
                 [] sector = 1 -> <<mid, hi, lo>>
                 [] sector = 2 -> <<lo, hi, mid>>
                 [] sector = 3 -> <<lo, mid, hi>>
                 [] sector = 4 -> <<mid, lo, hi>>
                 [] sector = 5 -> <<hi, lo, mid>>
                 [] OTHER      -> <<lo, lo, lo>>,
               px[4])

\* applyAdvancedSaturation(imageData, saturation): the rasters the call can
\* leave in imageData
applyAdvancedSaturation(r, saturation) ==
    LET px == Pixels(r)
    IN  {RasterOf(r.width, r.height, out) :
            out \in Choices([i \in 1..Len(px) |->
                               SaturatedPixel(px[i], saturation)] \o <<>>)}

SaturationCall ==
    /\ pc = "idle"
    /\ \E out \in applyAdvancedSaturation(imageData, settings.saturation) :
          ReturnedInPlace("applyAdvancedSaturation",
                          <<settings.saturation>>, out)

\* sample values of the pixels of SpecSaturation
\* a grey pixel followed by a pixel of the grid
InitSaturation ==
    LET grid == {0, 1, 2, 63, 64, 127, 128, 129, 200, 254, 255}
    IN  InitFilter({[saturation |-> s] : s \in {-100, -10, 0, 10, 100}},
                   {Tiled(2, 1, <<<<90, 90, 90, 255>>, <<r, g, b, 77>>>>) :
                       r \in grid, g \in grid, b \in grid})

SpecSaturation == InitSaturation /\ [][SaturationCall]_vars

IsGrey(px) == px[1] = px[2] /\ px[2] = px[3]

\* C16: a pixel with R = G = B is left exactly unchanged by the saturation
\* adjuster, for every saturation value.
C16_GreyUnchanged ==
    Called("applyAdvancedSaturation") =>
        \A i \in 1..(img.width * img.height) :
            IsGrey(PixelAt(img.data, i))
                => PixelAt(result.raster.data, i) = PixelAt(img.data, i)

\* full saturation on a grey pixel next to a coloured one that it changes
C16_Witness ==
    /\ Called("applyAdvancedSaturation")
    /\ settings.saturation = 100
    /\ PixelAt(img.data, 2) = <<200, 64, 63, 77>>
    /\ PixelAt(result.raster.data, 1) = <<90, 90, 90, 255>>
    /\ PixelAt(result.raster.data, 2) # PixelAt(img.data, 2)

\* C17: with saturation = 0 the RGB -> HSL -> RGB round trip reproduces
\* every pixel within 1 per channel.
C17_RoundTrip ==
    Called("applyAdvancedSaturation") /\ settings.saturation = 0 =>
        \A s \in Samples(img) :
            Abs(SampleAt(result.raster, s[1], s[2])
                - SampleAt(img, s[1], s[2])) <= 1

\* a coloured pixel of each hue sector through the round trip
C17_Witness ==
    /\ Called("applyAdvancedSaturation")
    /\ settings.saturation = 0
    /\ PixelAt(img.data, 2) \in {<<200, 63, 1, 77>>, <<129, 254, 2, 77>>,
                                 <<0, 255, 64, 77>>, <<1, 127, 200, 77>>,
                                 <<128, 2, 255, 77>>, <<254, 0, 63, 77>>}
    /\ result.raster = img

\* C23: for every pixel of the saturation adjuster whose samples are not
\* all equal the hue is at least 0 and less than 1 and the sector
\* Math.floor(h * 6) is one of 0..5, so that one of the six cases of the
\* switch is taken and the pixel is never rebuilt from the initial zeros.
C23_HueSectorInRange ==
    Called("applyAdvancedSaturation") =>
        \A i \in 1..(img.width * img.height) :
            LET px == PixelAt(img.data, i)
                D  == Max(px[1], Max(px[2], px[3]))
                        - Min(px[1], Min(px[2], px[3]))
            IN  ~IsGrey(px) =>
                   /\ 0 <= HueSixths(px)
                   /\ HueSixths(px) < 6 * D
                   /\ hSector(px) \in 0..5

\* the adjuster ran on the pixel of the largest hue, red over blue over no
\* green, and on one of hue 0, and changed them
C23_Witness ==
    /\ Called("applyAdvancedSaturation")
    /\ settings.saturation = -10
    /\ PixelAt(img.data, 2) \in {<<255, 0, 1, 77>>, <<255, 1, 1, 77>>}
    /\ hSector(PixelAt(img.data, 2)) \in {0, 5}
    /\ PixelAt(result.raster.data, 2) # PixelAt(img.data, 2)

--------------------------------------------------------------------------
(* Local contrast enhancer *)

blockSize == 64

clipLimit == 3

\* Math.round(0.299 * R + 0.587 * G + 0.114 * B).  The coefficients are not
\* exact in binary, so a sum that is halfway between two integers in exact
\* arithmetic is rounded to either of them by the code.
Luminances(px) ==
    LET n == 299 * px[1] + 587 * px[2] + 114 * px[3]
    IN  IF n % 1000 = 500
        THEN {n \div 1000, n \div 1000 + 1}
        ELSE {(n + 500) \div 1000}

\* Faulty variant: every tile given the full block, whatever the raster
TileEndUnbounded(start, extent) == start + blockSize

\* const endX = Math.min(bx + blockSize, width)
TileEnd(start, extent) == Min(start + blockSize, extent)

\* the tiles in the order the two for loops visit them
Tiles(width, height) ==
    LET cols == (width + blockSize - 1) \div blockSize
        rows == (height + blockSize - 1) \div blockSize
    IN  [k \in 1..(cols * rows) |->
           LET bx == ((k - 1) % cols) * blockSize
               by == ((k - 1) \div cols) * blockSize
           IN  [bx |-> bx, by |-> by, endX |-> TileEnd(bx, width),
                endY |-> TileEnd(by, height)]]

\* positions (from 1) in the buffer of the pixels the tile's loops visit
TilePixels(tile, width) ==
    {y * width + x + 1 : x \in tile.bx..(tile.endX - 1),
                         y \in tile.by..(tile.endY - 1)}

\* s[lo] + ... + s[hi]
RECURSIVE SumRange(_, _, _)
SumRange(s, lo, hi) ==
    IF lo > hi THEN 0
    ELSE IF lo = hi THEN s[lo]
    ELSE SumRange(s, lo, (lo + hi) \div 2)
         + SumRange(s, (lo + hi) \div 2 + 1, hi)

\* histogram bins after clipping are multiples of 1/256 and the
\* redistributed share is a multiple of 1/65536: bins and CDF are held in
\* units of 1/65536, in which the code's doubles are exact
BinUnit == 256 * 256

\* Faulty variant: the excess spread over the bins that were not clipped
\* only, as if the clipped ones were left at clipValue
RedistributedToUnclipped(bin, clipValue, share) ==
    IF bin > clipValue THEN clipValue ELSE bin + share

\* histogram[i] = clipValue when above it; histogram[i] += redistribute
Redistributed(bin, clipValue, share) ==
    (IF bin > clipValue THEN clipValue ELSE bin) + share

\* One iteration of the tile loops up to the CDF: lum[i] is the luminance
\* of pixel i.  Bin and CDF entry of value v are at index v + 1.
TileStats(tile, width, lum) ==
    LET inside     == TilePixels(tile, width)
        pixelCount == Cardinality(inside)
        histogram  == [v \in 1..256 |->
                         Cardinality({i \in inside : lum[i] = v - 1})]
                      \o <<>>
        \* const clipValue = (clipLimit * pixelCount) / 256
        clipValue  == (clipLimit * pixelCount * BinUnit) \div 256
        over       == [v \in 1..256 |->
                         IF histogram[v] * BinUnit > clipValue
                         THEN histogram[v] * BinUnit - clipValue
                         ELSE 0] \o <<>>
        \* const redistribute = excess / 256
        share      == SumRange(over, 1, 256) \div 256
        bins       == [v \in 1..256 |->
                         Redistributed(histogram[v] * BinUnit, clipValue,
                                       share)] \o <<>>
        cdf        == [v \in 1..256 |-> SumRange(bins, 1, v)] \o <<>>
    IN  [tile |-> tile, pixelCount |-> pixelCount, histogram |-> histogram,
         bins |-> bins, cdf |-> cdf]

\* const newValue = (cdf[value] / pixelCount) * 255, stored into the
\* buffer.  The quotient is carried with at most 19 fractional bits, the
\* bits dropped from the CDF entry widening the interval of the stored
\* value.
Remapped(value, stats) ==
    LET whole == stats.pixelCount * BinUnit
        shift == CHOOSE k \in 0..16 :
                    /\ whole <= 2 ^ (19 + k)
                    /\ (k = 0 \/ whole > 2 ^ (18 + k))
        c     == stats.cdf[value + 1] \div 2 ^ shift
        drop  == IF shift > 0 THEN 510 ELSE 0
    IN  Stored(4 * 255 * c + drop, 4 * (whole \div 2 ^ shift), 1 + drop)

\* applyCLAHE(imageData, width, height), lum[i] the luminance of pixel i:
\* the statistics of every tile, and the rasters the call can leave in
\* imageData.  Within a tile equal samples are remapped to equal values.
CLAHEWith(r, px, lum) ==
    LET tiles == Tiles(r.width, r.height)
        cols  == (r.width + blockSize - 1) \div blockSize
        stats == [k \in 1..Len(tiles) |->
                    TileStats(tiles[k], r.width, lum)] \o <<>>
        \* per tile, the ways to remap the samples that occur in it
        Maps(k) ==
            LET vals == Ascending({px[i][c] :
                                      i \in TilePixels(tiles[k], r.width),
                                      c \in 1..3})
            IN  {[vals |-> vals, out |-> ch] :
                    ch \in Choices([j \in 1..Len(vals) |->
                                      Remapped(vals[j], stats[k])] \o <<>>)}
        Out(m, v) == m.out[CHOOSE j \in 1..Len(m.vals) : m.vals[j] = v]
        TileOf(i) == (((i - 1) \div r.width) \div blockSize) * cols
                     + (((i - 1) % r.width) \div blockSize) + 1
    IN  {[tiles  |-> stats,
          raster |-> RasterOf(r.width, r.height,
                       [i \in 1..Len(px) |->
                          <<Out(maps[TileOf(i)], px[i][1]),
                            Out(maps[TileOf(i)], px[i][2]),
                            Out(maps[TileOf(i)], px[i][3]), px[i][4]>>])] :
            maps \in Choices([k \in 1..Len(tiles) |-> Maps(k)] \o <<>>)}

\* every pixel's luminance is chosen first, equal pixels having equal
\* luminance
applyCLAHE(r) ==
    LET px       == Pixels(r)
        Code(p)  == (p[1] * 256 + p[2]) * 256 + p[3]
        colours  == Ascending({Code(px[i]) : i \in 1..Len(px)})
        Decoded(n) == <<n \div (256 * 256), (n \div 256) % 256, n % 256>>
        lums     == {[i \in 1..Len(px) |->
                        ch[CHOOSE j \in 1..Len(colours) :
                              colours[j] = Code(px[i])]] \o <<>>
                     : ch \in Choices([j \in 1..Len(colours) |->
                                 Luminances(Decoded(colours[j]))] \o <<>>)}
    IN  UNION {CLAHEWith(r, p, lum) : p \in {px}, lum \in lums}

CLAHECall ==
    /\ pc = "idle"
    /\ \E ret \in applyCLAHE(imageData) :
          /\ log' = log \o <<CallEv("applyCLAHE", <<>>), ReturnEv("applyCLAHE")>>
          /\ imageData' = ret.raster
          /\ result' = [kind |-> "raster", raster |-> ret.raster,
                        tiles |-> ret.tiles]
          /\ pc' = "done"
          /\ UNCHANGED <<mode, settings, img, loads, canvas, settleLog>>

\* a raster whose pixels run through the cycle in bands of equal pixels
Banded(width, height, cycle, band) ==
    RasterOf(width, height,
             [i \in 1..(width * height) |->
                cycle[(((i - 1) \div band) % Len(cycle)) + 1]])

\* rasters of one or two rows or columns, of widths and heights around one
\* and two blocks, in bands of 16 pixels (every bin in use exceeds the clip
\* value) or of 127 (a full tile of two rows has a bin below it);
\* <<0, 36, 12>> has a luminance halfway between two integers in exact
\* arithmetic
InitCLAHE ==
    LET spans == {1, 2, blockSize - 1, blockSize, blockSize + 1,
                  2 * blockSize, 2 * blockSize + 2}
    IN  InitFilter({[blockSize |-> blockSize, clipLimit |-> clipLimit]},
               {Banded(w, h, cycle, band) :
                   w \in spans, h \in {1, 2}, band \in {16, 127},
                   cycle \in Mixed \cup {<<<<200, 100, 50, 9>>>>,
                                         <<<<0, 36, 12, 255>>,
                                           <<90, 90, 90, 0>>>>}}
               \cup {Banded(w, h, cycle, 16) :
                   w \in {1, 2}, h \in spans, cycle \in Mixed})

SpecCLAHE == InitCLAHE /\ [][CLAHECall]_vars

\* C18: in the local contrast enhancer the bins of every tile sum to the
\* tile's pixel count before and after clipping and redistribution, so the
\* last CDF entry is the pixel count; tiles start at multiples of blockSize,
\* only the last tile of a row or column is partial, and every pixel is in
\* exactly one tile.
C18_TilesConserveCount ==
    Called("applyCLAHE") =>
        /\ \A k \in 1..Len(result.tiles) :
              LET st == result.tiles[k]
                  t  == st.tile
              IN  /\ st.pixelCount = (t.endX - t.bx) * (t.endY - t.by)
                  /\ SumRange(st.histogram, 1, 256) = st.pixelCount
                  /\ SumRange(st.bins, 1, 256) = st.pixelCount * BinUnit
                  /\ st.cdf[256] = st.pixelCount * BinUnit
                  /\ t.bx % blockSize = 0 /\ t.by % blockSize = 0
                  /\ t.endX - t.bx = blockSize \/ t.endX = img.width
                  /\ t.endY - t.by = blockSize \/ t.endY = img.height
                  /\ t.bx < t.endX /\ t.by < t.endY
        /\ \A i \in 1..(img.width * img.height) :
              Cardinality({k \in 1..Len(result.tiles) :
                             i \in TilePixels(result.tiles[k].tile,
                                              img.width)}) = 1

\* two full tiles and a partial one of four pixels, bins of the first tile
\* clipped
C18_Witness ==
    /\ Called("applyCLAHE")
    /\ img.width = 2 * blockSize + 2 /\ img.height = 2
    /\ Len(result.tiles) = 3
    /\ result.tiles[3].pixelCount = 4
    /\ \E v \in 1..256 :
          /\ result.tiles[1].histogram[v] > 0
          /\ result.tiles[1].bins[v] < result.tiles[1].histogram[v] * BinUnit
    /\ result.raster # img

\* ------------------------------------------------------------------------
\* Bicubic resampling.  scaleFactor is the fraction scaleNum / scaleDen in
\* lowest terms, so a source coordinate x / scaleFactor is a multiple of
\* 1 / scaleNum; with scaleDen a power of two the code's products
\* src * scaleFactor are exact.

\* Faulty variant: the scaled dimension truncated
DstSizeFloored(src, scaleNum, scaleDen) == (src * scaleNum) \div scaleDen

\* Math.round(srcWidth * scaleFactor)
DstSize(src, scaleNum, scaleDen) ==
    (2 * src * scaleNum + scaleDen) \div (2 * scaleDen)

\* getValue: px = Math.min(width - 1, Math.max(0, px))
SourceCoord(k, extent) == Min(extent - 1, Max(0, k))

\* cubic(t) for a = -0.5, at t = tn / q, in units of 1 / (2 q^3)
Cubic(tn, q) ==
    LET absT == Abs(tn)
    IN  IF absT <= q
        THEN 3 * absT * absT * absT - 5 * absT * absT * q + 2 * q * q * q
        ELSE IF absT <= 2 * q
        THEN - absT * absT * absT + 5 * absT * absT * q
             - 8 * absT * q * q + 4 * q * q * q
        ELSE 0

\* bicubicInterpolate at x = xn / q, y = yn / q: the source coordinates read
\* and the value stored by the caller.  Only a quotient x / scaleFactor that
\* is not a dyadic number is rounded by the code.
bicubicInterpolate(px, width, height, xn, yn, q, channel) ==
    LET x1   == xn \div q
        y1   == yn \div q
        taps == {<<m, n>> : m \in -1..2, n \in -1..2}
        At(t) == <<SourceCoord(x1 + t[2], width),
                   SourceCoord(y1 + t[1], height)>>
        Term(t) == px[At(t)[2] * width + At(t)[1] + 1][channel]
                   * Cubic(xn - x1 * q - t[2] * q, q)
                   * Cubic(yn - y1 * q - t[1] * q, q)
        rows == [m \in 1..4 |->
                   Term(<<m - 2, -1>>) + Term(<<m - 2, 0>>)
                   + Term(<<m - 2, 1>>) + Term(<<m - 2, 2>>)]
    IN  [reads  |-> {At(t) : t \in taps},
         values |-> Stored(rows[1] + rows[2] + rows[3] + rows[4],
                           4 * q * q * q * q * q * q,
                           IF IsDyadic(1, q) THEN 0 ELSE 1)]

\* bicubicUpscale(imageData, scaleFactor): the rasters it can return, each
\* with the source coordinates read on the way
bicubicUpscale(r, scaleNum, scaleDen) ==
    LET px        == Pixels(r)
        dstWidth  == DstSize(r.width, scaleNum, scaleDen)
        dstHeight == DstSize(r.height, scaleNum, scaleDen)
        Sample(i, c) ==
            bicubicInterpolate(px, r.width, r.height,
                               ((i - 1) % dstWidth) * scaleDen,
                               ((i - 1) \div dstWidth) * scaleDen,
                               scaleNum, c)
    IN  {[raster |-> RasterOf(dstWidth, dstHeight, out),
          reads  |-> UNION {Sample(i, c).reads :
                              i \in 1..(dstWidth * dstHeight), c \in 1..4}] :
            out \in Choices([i \in 1..(dstWidth * dstHeight) |->
                               Choices([c \in 1..4 |-> Sample(i, c).values]
                                       \o <<>>)] \o <<>>)}

BicubicCall ==
    /\ pc = "idle"
    /\ \E ret \in bicubicUpscale(img, settings.scaleNum, settings.scaleDen) :
          Returned("bicubicUpscale", <<settings.scaleNum, settings.scaleDen>>,
                   [kind |-> "raster", raster |-> ret.raster,
                    reads |-> ret.reads])

\* scale factors 0.5, 0.75, 1, 1.5, 2 and 2.5
InitBicubic ==
    InitFilter({[scaleNum |-> s[1], scaleDen |-> s[2]] :
                   s \in {<<1, 2>>, <<3, 4>>, <<1, 1>>, <<3, 2>>, <<2, 1>>,
                          <<5, 2>>}},
               {Tiled(w, h, cycle) :
                   w \in 1..3, h \in 1..3, cycle \in Mixed})

SpecBicubic == InitBicubic /\ [][BicubicCall]_vars

\* C19: bicubic resampling with scaleFactor = 1 returns the source at every
\* pixel and channel; for every scale factor the output is
\* round(srcWidth * scaleFactor) by round(srcHeight * scaleFactor), and
\* every source coordinate read lies inside the image.
C19_BicubicIdentityAndSize ==
    Called("bicubicUpscale") =>
        LET p == settings.scaleNum
            d == settings.scaleDen
            out == result.raster
        IN  /\ p = d => out = img
            /\ d * (2 * out.width - 1) <= 2 * img.width * p
            /\ 2 * img.width * p < d * (2 * out.width + 1)
            /\ d * (2 * out.height - 1) <= 2 * img.height * p
            /\ 2 * img.height * p < d * (2 * out.height + 1)
            /\ \A at \in result.reads :
                  /\ at[1] \in 0..(img.width - 1)
                  /\ at[2] \in 0..(img.height - 1)

\* a 3 by 2 source of three colours resampled at scale 1 (returned as it
\* is) -- reads at the four corners show taps outside the image were
\* clamped
C19_Witness ==
    /\ Called("bicubicUpscale")
    /\ settings.scaleNum = 1 /\ settings.scaleDen = 1
    /\ img.width = 3 /\ img.height = 2
    /\ PixelAt(img.data, 1) # PixelAt(img.data, 2)
    /\ result.raster = img
    /\ {<<0, 0>>, <<2, 0>>, <<0, 1>>, <<2, 1>>} \subseteq result.reads

\* ------------------------------------------------------------------------
\* Bilateral filter.  spatialSigma is in thousandths, intensitySigma a
\* whole number.

\* Faulty variant: twice the sigma rounded down
BilateralRadiusFloored(spatialSigma) == (2 * spatialSigma) \div 1000

\* const radius = Math.ceil(spatialSigma * 2)
BilateralRadius(spatialSigma) == (2 * spatialSigma + 999) \div 1000

\* one sample of the filtered interior: channel c of the pixel at (x, y).
\* Each weight is the product of two exponentials, so it is off by less
\* than TapError units once cut to TapBits; the centre tap has weight 1 and
\* weightSum > 0 always holds.
BilateralSample(px, width, spatialSigma, intensitySigma, x, y, c) ==
    LET radius == BilateralRadius(spatialSigma)
        side   == 2 * radius + 1
        centerValue == px[y * width + x + 1][c]
        Dy(j)  == ((j - 1) \div side) - radius
        Dx(j)  == ((j - 1) % side) - radius
        vals   == [j \in 1..(side * side) |->
                     px[(y + Dy(j)) * width + (x + Dx(j)) + 1][c]] \o <<>>
        wts    == [j \in 1..(side * side) |->
                     TapWeight(MulFix(
                       ExpNeg((Dx(j) * Dx(j) + Dy(j) * Dy(j)) * 1000000,
                              2 * spatialSigma * spatialSigma),
                       ExpNeg((centerValue - vals[j]) * (centerValue - vals[j]),
                              2 * intensitySigma * intensitySigma)))] \o <<>>
    IN  WeightedAverage(vals, wts, SumSeq(wts))

\* applyBilateralFilter(imageData, width, height, spatialSigma,
\* intensitySigma): the rasters it can return.  The output buffer starts as
\* a copy of the input and the loops visit y in radius..height - radius - 1
\* and x in radius..width - radius - 1 only.
applyBilateralFilter(r, spatialSigma, intensitySigma) ==
    LET px     == Pixels(r)
        radius == BilateralRadius(spatialSigma)
        Visited(i) ==
            /\ radius <= (i - 1) \div r.width
            /\ (i - 1) \div r.width < r.height - radius
            /\ radius <= (i - 1) % r.width
            /\ (i - 1) % r.width < r.width - radius
    IN  {RasterOf(r.width, r.height, out) :
            out \in Choices(
               [i \in 1..Len(px) |->
                  IF Visited(i)
                  THEN PixelChoices(
                         [c \in 1..3 |->
                            BilateralSample(px, r.width, spatialSigma,
                                            intensitySigma,
                                            (i - 1) % r.width,
                                            (i - 1) \div r.width, c)],
                         px[i][4])
                  ELSE {px[i]}] \o <<>>)}

BilateralCall ==
    /\ pc = "idle"
    /\ \E out \in applyBilateralFilter(img, settings.spatialSigma,
                                       settings.intensitySigma) :
          Returned("applyBilateralFilter",
                   <<settings.spatialSigma, settings.intensitySigma>>,
                   [kind |-> "raster", raster |-> out])

\* spatial sigmas 0.5, 0.75 and 1 (radius 1, 2, 2) on rasters up to
\* MaxSide + 2 on a side, and 2 and 3 (radius 4 and 6, as in the callers)
\* on rasters whose interior is empty or a single pixel
InitBilateral ==
    InitFilter({[spatialSigma |-> s, intensitySigma |-> t] :
                   s \in {500, 750, 1000}, t \in {10, 25}},
               {Tiled(w, h, cycle) :
                   w \in 1..(MaxSide + 2), h \in {1, 3, 5}, cycle \in Mixed})
    \/ InitFilter({[spatialSigma |-> s, intensitySigma |-> 25] :
                      s \in {2000, 3000}},
                  {Tiled(w, h, cycle) :
                      w \in {8, 9}, h \in {1, 8, 9}, cycle \in Mixed})

SpecBilateral == InitBilateral /\ [][BilateralCall]_vars

\* C20: the bilateral filter returns every pixel closer than
\* radius = ceil(2 * spatialSigma) to a border of the image equal to its
\* input in all four channels, so a raster at most 2 * radius wide or high
\* is returned unchanged and only pixels at least radius away from every
\* border can differ.
C20_BilateralBorder ==
    Called("applyBilateralFilter") =>
        LET radius == CHOOSE n \in 0..20 :
                         /\ 1000 * n >= 2 * settings.spatialSigma
                         /\ 1000 * (n - 1) < 2 * settings.spatialSigma
            out    == result.raster
            X(i)   == (i - 1) % img.width
            Y(i)   == (i - 1) \div img.width
        IN  /\ out.width = img.width /\ out.height = img.height
            /\ \A i \in 1..(img.width * img.height) :
                  PixelAt(out.data, i) # PixelAt(img.data, i)
                      => /\ X(i) >= radius /\ X(i) <= img.width - 1 - radius
                         /\ Y(i) >= radius /\ Y(i) <= img.height - 1 - radius
            /\ (img.width <= 2 * radius \/ img.height <= 2 * radius)
                  => out = img

\* sigma 0.75 (radius 2) on a 6 by 5 raster: the two interior pixels are
\* the only ones that can change, and one of them does
C20_Witness ==
    /\ Called("applyBilateralFilter")
    /\ settings.spatialSigma = 750
    /\ img.width = 6 /\ img.height = 5
    /\ result.raster # img
    /\ \A i \in (1..30) \ {15, 16} :
          PixelAt(result.raster.data, i) = PixelAt(img.data, i)

\* ------------------------------------------------------------------------
\* Detail enhancer and colour enhancer

\* enhanceDetails(imageData, width, height): data + (data - blurred) * 0.8
\* over a blur of radius 2, stored in place; ten times the sum is a whole
\* number, never halfway between two multiples of ten
enhanceDetails(r) ==
    LET px == Pixels(r)
    IN  UNION {
          {RasterOf(r.width, r.height, out) :
             out \in Choices(
                [i \in 1..Len(px) |->
                   PixelChoices(
                     [c \in 1..3 |->
                        Stored(10 * px[i][c]
                               + 8 * (px[i][c] - PixelAt(blurred.data, i)[c]),
                               10, 0)],
                     px[i][4])] \o <<>>)} :
          blurred \in gaussianBlur(r, 2000)}

\* 1/n + w/(n + 2) + w^2/(n + 4) + ... up to the term in 1/13
RECURSIVE AtanhTail(_, _)
AtanhTail(w, n) ==
    IF n > 13 THEN 0 ELSE FixOne \div n + MulFix(w, AtanhTail(w, n + 2))

\* ln(255 / value) for value in 1..255, as a fixed-point number:
\* 255 / value = 2^k * m with 1 <= m < 2, ln m = 2 atanh((m - 1) / (m + 1))
LnRatio(value) ==
    LET Atanh(z) == MulFix(z, AtanhTail(MulFix(z, z), 1))
        k == CHOOSE n \in 0..7 :
                value * 2 ^ n <= 255 /\ value * 2 ^ (n + 1) > 255
        a == value * 2 ^ k
    IN  k * 2 * Atanh(ToFix(1, 3)) + 2 * Atanh(ToFix(255 - a, 255 + a))

\* Math.pow(value / 255, num / den) as a fixed-point number
PowFix(value, num, den) ==
    IF value = 0 THEN 0 ELSE ExpNegFix((LnRatio(value) * num) \div den, 0)

\* one pixel of enhanceColors: the colour temperature adjustment, the
\* colour separation about the least channel (which leaves the channels as
\* they are when they are equal), and the store.  Cut to TapBits the
\* channels are off by less than TapError units.
EnhancedColours(px) ==
    LET r == (PowFix(px[1], 9, 10) * 105) \div 100
        g == (PowFix(px[2], 19, 20) * 102) \div 100
        b == (PowFix(px[3], 11, 10) * 98) \div 100
        least == Min(r, Min(g, b))
        Out(v) == Stored(TapWeight(least + ((v - least) * 115) \div 100) * 255,
                         2 ^ TapBits, TapError * 255)
    IN  PixelChoices(<<Out(r), Out(g), Out(b)>>, px[4])

\* enhanceColors(imageData), in place
enhanceColors(r) ==
    LET px == Pixels(r)
    IN  {RasterOf(r.width, r.height, out) :
            out \in Choices([i \in 1..Len(px) |->
                               EnhancedColours(px[i])] \o <<>>)}

\* ------------------------------------------------------------------------
\* The filter stages composed: imageData = stage(imageData, ...), any stage
\* after any other, up to MaxStages calls.

MaxStages == 2

Stage(fn, args, outs) ==
    /\ pc = "idle"
    /\ Len(log) < 2 * MaxStages
    /\ \E out \in outs : imageData' = out
    /\ log' = log \o <<CallEv(fn, args), ReturnEv(fn)>>
    /\ UNCHANGED <<mode, settings, img, loads, canvas, settleLog, result, pc>>

StageBlur ==
    Stage("gaussianBlur", <<settings.radius>>,
          gaussianBlur(imageData, settings.radius))

StageUnsharp ==
    Stage("applyUnsharpMask",
          <<settings.amount, settings.radius, settings.threshold>>,
          applyUnsharpMask(imageData, settings.amount, settings.radius,
                           settings.threshold))

StageBilateral ==
    Stage("applyBilateralFilter",
          <<settings.spatialSigma, settings.intensitySigma>>,
          applyBilateralFilter(imageData, settings.spatialSigma,
                               settings.intensitySigma))

StageTone ==
    Stage("applyAdvancedToneMapping", <<settings.brightness, 0>>,
          {ToneMapped(imageData, settings.brightness, 0)})

StageSaturation ==
    Stage("applyAdvancedSaturation", <<settings.saturation>>,
          applyAdvancedSaturation(imageData, settings.saturation))

StageCLAHE ==
    Stage("applyCLAHE", <<>>, {ret.raster : ret \in applyCLAHE(imageData)})

StageDetails == Stage("enhanceDetails", <<>>, enhanceDetails(imageData))

StageColors == Stage("enhanceColors", <<>>, enhanceColors(imageData))

NextStages ==
    \/ StageBlur
    \/ StageUnsharp
    \/ StageBilateral
    \/ StageTone
    \/ StageSaturation
    \/ StageCLAHE
    \/ StageDetails
    \/ StageColors

\* 3 by 3 rasters with alpha samples of every kind (the pixel in the middle
\* is the one the bilateral filter of radius 1 visits)
InitStages ==
    InitFilter({[radius |-> 1000, amount |-> 1500, threshold |-> 2000,
                 spatialSigma |-> 500, intensitySigma |-> 25,
                 brightness |-> b, saturation |-> 40] : b \in {-50, 50}},
               {Tiled(3, 3, cycle) : cycle \in Mixed})

SpecStages == InitStages /\ [][NextStages]_vars

\* C11: every filter stage (blur, unsharp mask, bilateral filter, tone
\* mapper, saturation adjuster, local contrast enhancer, detail enhancer,
\* colour enhancer) returns the alpha sample of every pixel equal to its
\* input, the border band of the bilateral filter included, and so does
\* every composition of stages.
C11_AlphaPreserved ==
    /\ imageData.width = img.width
    /\ imageData.height = img.height
    /\ \A i \in 1..(img.width * img.height) :
          PixelAt(imageData.data, i)[4] = PixelAt(img.data, i)[4]

\* the bilateral filter, then the colour enhancer: the colours of the
\* middle pixel (visited by the bilateral filter) and of the second (in its
\* border band) have changed, their alpha samples 0 and 200 have not
C11_Witness ==
    /\ Len(log) = 4
    /\ log[1].fn = "applyBilateralFilter"
    /\ log[3].fn = "enhanceColors"
    /\ PixelAt(img.data, 2)[4] = 200
    /\ PixelAt(img.data, 5)[4] = 0
    /\ PixelAt(imageData.data, 2) # PixelAt(img.data, 2)
    /\ PixelAt(imageData.data, 5) # PixelAt(img.data, 5)
    /\ PixelAt(imageData.data, 2)[4] = 200
    /\ PixelAt(imageData.data, 5)[4] = 0

\* ------------------------------------------------------------------------
\* The buffers of the spatial stages, one row or tile at a time.
\* settings.fn names the stage; result.bufs holds the pixel buffers by the
\* names the code gives them (data is the buffer of the raster passed in,
\* and imageData follows it), result.pass the pass under way, result.done
\* the rows or tiles the pass has finished and result.order the order they
\* were taken in.  The rows of a pass, and the
\* tiles, are taken in any order.

\* the buffers a stage allocates on entry: gaussianBlur copies data twice
\* (outputData, tempData), applyBilateralFilter once, applyCLAHE not at all
Allocated(fn, px) ==
    [data       |-> px,
     tempData   |-> IF fn = "gaussianBlur" THEN px ELSE <<>>,
     outputData |-> IF fn = "applyCLAHE" THEN <<>> ELSE px]

\* Faulty variant: a pass that filters the buffer it is writing
ReadBufferWritten(fn, pass) ==
    IF fn = "applyCLAHE" THEN "data"
    ELSE IF fn = "gaussianBlur" /\ pass = 1 THEN "tempData"
    ELSE "outputData"

\* the buffer the samples of a pass are read from
ReadBuffer(fn, pass) ==
    IF fn = "gaussianBlur" /\ pass = 2 THEN "tempData" ELSE "data"

\* Faulty variant: every stage working in the buffer it was given
WriteBufferInPlace(fn, pass) == "data"

\* the buffer a pass stores into
WriteBuffer(fn, pass) ==
    IF fn = "applyCLAHE" THEN "data"
    ELSE IF fn = "gaussianBlur" /\ pass = 1 THEN "tempData"
    ELSE "outputData"

\* the buffer wrapped in the value returned: return imageData in
\* applyCLAHE, return new ImageData(outputData, width, height) elsewhere
ReturnedBuffer(fn) == IF fn = "applyCLAHE" THEN "data" ELSE "outputData"

\* the rows (y + 1) the loops of a pass visit, or the tiles (by position in
\* loop order)
PassUnits(fn, r, s) ==
    IF fn = "applyCLAHE" THEN 1..Len(Tiles(r.width, r.height))
    ELSE IF fn = "gaussianBlur" THEN 1..r.height
    ELSE (BilateralRadius(s.spatialSigma) + 1)
            ..(r.height - BilateralRadius(s.spatialSigma))

\* one tile of applyCLAHE on the buffer px: the histogram of the tile's
\* pixels, then their remapping, in place
TileEqualised(px, width, tile) ==
    LET inside   == TilePixels(tile, width)
        Code(p)  == (p[1] * 256 + p[2]) * 256 + p[3]
        colours  == Ascending({Code(px[i]) : i \in inside})
        Decoded(n) == <<n \div (256 * 256), (n \div 256) % 256, n % 256>>
        lums     == {[i \in 1..Len(px) |->
                        IF i \in inside
                        THEN ch[CHOOSE j \in 1..Len(colours) :
                                   colours[j] = Code(px[i])]
                        ELSE 0] \o <<>>
                     : ch \in Choices([j \in 1..Len(colours) |->
                                 Luminances(Decoded(colours[j]))] \o <<>>)}
        vals     == Ascending({px[i][c] : i \in inside, c \in 1..3})
        At(v)    == CHOOSE j \in 1..Len(vals) : vals[j] = v
    IN  UNION {
          {[i \in 1..Len(px) |->
              IF i \in inside
              THEN <<out[At(px[i][1])], out[At(px[i][2])],
                     out[At(px[i][3])], px[i][4]>>
              ELSE px[i]] \o <<>> :
             out \in Choices([j \in 1..Len(vals) |->
                        Remapped(vals[j], TileStats(tile, width, lum))]
                        \o <<>>)} :
          lum \in lums}

\* the contents the written buffer can have after one row or tile: src is
\* the buffer read, dst the buffer written
UnitOutcomes(fn, pass, unit, src, dst, r, s) ==
    LET Row(i) == (i - 1) \div r.width
        X(i)   == (i - 1) % r.width
    IN  IF fn = "applyCLAHE"
        THEN TileEqualised(src, r.width, Tiles(r.width, r.height)[unit])
        ELSE IF fn = "gaussianBlur"
        THEN LET k      == generateGaussianKernel(s.radius).weights
                 kernel == [i \in 1..Len(k) |-> TapWeight(k[i])] \o <<>>
             IN  Choices(
                   [i \in 1..Len(dst) |->
                      IF Row(i) = unit - 1
                      THEN PixelChoices(
                             [c \in 1..3 |->
                                BlurSample(src, r.width, r.height, kernel,
                                           pass = 1, i, c)],
                             src[i][4])
                      ELSE {dst[i]}] \o <<>>)
        ELSE LET radius == BilateralRadius(s.spatialSigma)
             IN  Choices(
                   [i \in 1..Len(dst) |->
                      IF /\ Row(i) = unit - 1
                         /\ radius <= X(i) /\ X(i) < r.width - radius
                      THEN PixelChoices(
                             [c \in 1..3 |->
                                BilateralSample(src, r.width, s.spatialSigma,
                                                s.intensitySigma, X(i),
                                                Row(i), c)],
                             src[i][4])
                      ELSE {dst[i]}] \o <<>>)

\* entry: const data = imageData.data and the allocations
EnterStage ==
    /\ pc = "idle"
    /\ result' = [kind |-> "buffers", pass |-> 1, done |-> {},
                  order |-> <<>>,
                  bufs |-> Allocated(settings.fn, Pixels(imageData))]
    /\ log' = log \o <<CallEv(settings.fn, <<>>)>>
    /\ pc' = "pass"
    /\ UNCHANGED <<mode, settings, img, loads, canvas, imageData, settleLog>>

\* one row or tile of the pass under way
ProcessUnit ==
    /\ pc = "pass"
    /\ \E unit \in PassUnits(settings.fn, img, settings) \ result.done :
         LET from == ReadBuffer(settings.fn, result.pass)
             to   == WriteBuffer(settings.fn, result.pass)
         IN  \E out \in UnitOutcomes(settings.fn, result.pass, unit,
                                     result.bufs[from], result.bufs[to],
                                     img, settings) :
                /\ result' = [result EXCEPT !.done = @ \cup {unit},
                                            !.order = Append(@, unit),
                                            !.bufs[to] = out]
                /\ imageData' = IF to = "data"
                                THEN RasterOf(img.width, img.height, out)
                                ELSE imageData
    /\ UNCHANGED <<mode, settings, img, pc, loads, canvas, log, settleLog>>

\* the end of a pass: the vertical pass of gaussianBlur follows the
\* horizontal one; otherwise the stage returns
EndPass ==
    /\ pc = "pass"
    /\ result.done = PassUnits(settings.fn, img, settings)
    /\ IF settings.fn = "gaussianBlur" /\ result.pass = 1
       THEN /\ result' = [result EXCEPT !.pass = 2, !.done = {},
                                         !.order = <<>>]
            /\ UNCHANGED <<pc, log>>
       ELSE /\ result' =
                 [kind |-> "raster", order |-> result.order,
                  buffer |-> ReturnedBuffer(settings.fn),
                  raster |-> RasterOf(img.width, img.height,
                               result.bufs[ReturnedBuffer(settings.fn)])]
            /\ log' = Append(log, ReturnEv(settings.fn))
            /\ pc' = "done"
    /\ UNCHANGED <<mode, settings, img, loads, canvas, imageData, settleLog>>

NextPasses ==
    \/ EnterStage
    \/ ProcessUnit
    \/ EndPass

\* the blur on rasters of two or three rows, the bilateral filter of
\* radius 1 on rasters with two interior rows, the local contrast enhancer
\* on rasters of two or three tiles in a row or in a column
InitPasses ==
    \/ InitFilter({[fn |-> "gaussianBlur", radius |-> 1000]},
                  {Tiled(w, h, cycle) :
                      w \in 2..3, h \in 2..3, cycle \in Mixed})
    \/ InitFilter({[fn |-> "applyBilateralFilter", spatialSigma |-> 500,
                    intensitySigma |-> t] : t \in {10, 25}},
                  {Tiled(w, 4, cycle) : w \in 3..4, cycle \in Mixed})
    \/ InitFilter({[fn |-> "applyCLAHE"]},
                  {Banded(d[1], d[2], cycle, 16) :
                      d \in {<<blockSize + 1, 1>>, <<2 * blockSize + 2, 2>>,
                             <<1, blockSize + 1>>, <<2, 2 * blockSize + 2>>},
                      cycle \in Mixed})

SpecPasses == InitPasses /\ [][NextPasses]_vars

\* C21 as stated: after a blur, a bilateral filter or a local contrast
\* enhancement returns, the buffer it was given holds its samples of before
\* the call and the returned buffer is another buffer.
C21_EveryStagePure ==
    pc = "done" => imageData = img /\ result.buffer # "data"

\* C21 as amended: the blur and the bilateral filter leave the buffer they
\* were given as it was and return a buffer they allocated; the local
\* contrast enhancer stores its result in the buffer it was given and
\* returns that buffer.
C21_PureExceptCLAHE ==
    pc = "done" =>
        IF settings.fn = "applyCLAHE"
        THEN result.buffer = "data" /\ result.raster = imageData
        ELSE result.buffer = "outputData" /\ imageData = img

\* a local contrast enhancement that changed the samples of the raster it
\* was given
C21_Witness ==
    /\ pc = "done"
    /\ settings.fn = "applyCLAHE"
    /\ result.buffer = "data"
    /\ imageData # img

\* C22: the result of the blur, of the bilateral filter and of the local
\* contrast enhancer is the same whatever the order in which the rows of a
\* pass, or the tiles, are processed: it is a result of the stage run in
\* the order of its loops.
C22_OrderIndependent ==
    pc = "done" =>
        result.raster \in
            CASE settings.fn = "gaussianBlur" ->
                    gaussianBlur(img, settings.radius)
              [] settings.fn = "applyBilateralFilter" ->
                    applyBilateralFilter(img, settings.spatialSigma,
                                         settings.intensitySigma)
              [] settings.fn = "applyCLAHE" ->
                    {ret.raster : ret \in applyCLAHE(img)}

\* a vertical blur pass that took the rows last to first and changed the
\* raster
C22_Witness ==
    /\ pc = "done"
    /\ settings.fn = "gaussianBlur"
    /\ result.order = <<3, 2, 1>>
    /\ result.raster # img


--------------------------------------------------------------------------
(* Enhancement controls *)

\* the settings keys that have a slider
SliderKeys ==
    {"sharpening", "denoising", "brightness", "contrast", "saturation"}

\* min of the slider of a key: SliderControl's default 0 unless given
SliderMin(key) ==
    IF key \in {"brightness", "contrast", "saturation"} THEN -50 ELSE 0

\* Faulty variant: every slider left at SliderControl's default max
SliderMaxDefault(key) == 100

\* max of the slider of a key
SliderMax(key) ==
    IF key \in {"brightness", "contrast", "saturation"} THEN 50 ELSE 100

\* values a range input of step 1 reports: the integers from min to max,
\* of which the model takes the two ends
SliderStops(key) == {SliderMin(key), SliderMax(key)}

\* handleSliderChange(key, value): the record passed to onChange
handleSliderChange(s, key, value) == [s EXCEPT ![key] = value]

\* handleToggle(key): the record passed to onChange
handleToggle(s, key) == [s EXCEPT ![key] = ~s[key]]

\* resetToDefaults(): the record passed to onChange
resetToDefaults == SettingsOf(40, 30, 5, 15, 10, TRUE)

\* const presets of setModePreset
presets ==
    [portrait     |-> SettingsOf(35, 40, 8, 12, 15, TRUE),
     landscape    |-> SettingsOf(50, 25, 3, 20, 12, TRUE),
     vintage      |-> SettingsOf(25, 35, -5, 25, -10, FALSE),
     professional |-> SettingsOf(60, 45, 0, 25, 8, TRUE)]

\* setModePreset(mode): the records passed to onChange, none for a mode
\* without preset
setModePreset(m) == IF m \in DOMAIN presets THEN {presets[m]} ELSE {}

\* onChange = setSettings of the App
OnChange(s) ==
    /\ settings' = s
    /\ UNCHANGED <<mode, img, pc, loads, canvas, imageData, log, settleLog,
                   result>>

\* a SliderControl reports a value
SliderChange ==
    /\ pc = "idle"
    /\ \E key \in SliderKeys : \E value \in SliderStops(key) :
          OnChange(handleSliderChange(settings, key, value))

\* onClick of the AI switch
Toggle ==
    /\ pc = "idle"
    /\ OnChange(handleToggle(settings, "useAI"))

\* onClick of the reset button
Reset ==
    /\ pc = "idle"
    /\ OnChange(resetToDefaults)

\* onClick of a preset button
Preset ==
    /\ pc = "idle"
    /\ \E m \in DOMAIN presets : \E s \in setModePreset(m) : OnChange(s)

NextControls == SliderChange \/ Toggle \/ Reset \/ Preset

InitControls ==
    /\ InitRun
    /\ settings = DefaultSettings
    /\ img = SourceOf(1, 1, NoData)

SpecControls == InitControls /\ [][NextControls]_vars

\* C29: after any sequence of slider changes, toggles of the AI switch,
\* presets and resets from the initial settings of the App, sharpening and
\* denoising are in 0..100, brightness, contrast and saturation are in
\* -50..50 and useAI is a boolean.
C29_SettingsInRange ==
    /\ settings.sharpening \in 0..100
    /\ settings.denoising \in 0..100
    /\ settings.brightness \in -50..50
    /\ settings.contrast \in -50..50
    /\ settings.saturation \in -50..50
    /\ settings.useAI \in BOOLEAN

\* the vintage preset with two sliders then dragged to an end and the AI
\* switch toggled
C29_Witness ==
    settings = SettingsOf(100, 35, -50, 25, -10, TRUE)


--------------------------------------------------------------------------
(* The live preview of the App *)

\* The preview path of the App component.  settings is its settings state;
\* result holds the rest: originalImage (0 for null, otherwise the File
\* uploaded), realtimePreview, isRealtimeProcessing, timeoutId (the call the
\* pending timeout of the effect will make), inFlight (the calls of
\* processRealtimePreview awaiting processImageRealtime, oldest first) and
\* failed (whether console.error reported a failed preview).  The data URL
\* processImageRealtime(file, settings) resolves with is written as the
\* pair of its arguments.

\* the File objects that can be uploaded are 1..MaxFiles
MaxFiles == 2

\* calls of processImageRealtime that can be pending together
MaxInFlight == 2

Null == [file |-> 0]

Request(file, s) == [file |-> file, settings |-> s]

\* The effect of the App after a render that changed originalImage or
\* settings: the cleanup of the previous run clears its timeout, and a new
\* timeout is set unless there is no image.
EffectTimeout(file, s) == IF file = 0 THEN Null ELSE Request(file, s)

\* handleImageUpload(file) with a File other than the one held
handleImageUpload ==
    /\ pc = "idle"
    /\ result.kind = "app"
    /\ \E file \in 1..MaxFiles :
          /\ file # result.originalImage
          /\ result' = [result EXCEPT
                          !.originalImage = file,
                          !.realtimePreview = Null,
                          !.timeoutId = EffectTimeout(file, settings)]
    /\ UNCHANGED <<mode, settings, img, pc, loads, canvas, imageData, log,
                   settleLog>>

\* setSettings called by the controls through the AI switch, the reset
\* button or a preset
setSettings ==
    /\ pc = "idle"
    /\ result.kind = "app"
    /\ \E s \in {handleToggle(settings, "useAI"), resetToDefaults}
                \cup UNION {setModePreset(m) : m \in DOMAIN presets} :
          /\ settings' = s
          /\ result' = [result EXCEPT
                          !.timeoutId =
                              EffectTimeout(result.originalImage, s)]
    /\ UNCHANGED <<mode, img, pc, loads, canvas, imageData, log, settleLog>>

\* the timeout of the effect fires: processRealtimePreview up to its await
TimeoutFires ==
    /\ pc = "idle"
    /\ result.kind = "app"
    /\ result.timeoutId # Null
    /\ Len(result.inFlight) < MaxInFlight
    /\ result' = [result EXCEPT
                    !.timeoutId = Null,
                    !.isRealtimeProcessing = TRUE,
                    !.inFlight = Append(@, result.timeoutId)]
    /\ UNCHANGED <<mode, settings, img, pc, loads, canvas, imageData, log,
                   settleLog>>

Without(seq, i) == SubSeq(seq, 1, i - 1) \o SubSeq(seq, i + 1, Len(seq))

\* processImageRealtime of a pending call resolves: the rest of the try
\* block and the finally block
PreviewResolved ==
    /\ pc = "idle"
    /\ result.kind = "app"
    /\ \E i \in DOMAIN result.inFlight :
          result' = [result EXCEPT
                       !.realtimePreview = result.inFlight[i],
                       !.isRealtimeProcessing = FALSE,
                       !.inFlight = Without(@, i)]
    /\ UNCHANGED <<mode, settings, img, pc, loads, canvas, imageData, log,
                   settleLog>>

\* processImageRealtime of a pending call rejects: the catch block and the
\* finally block
PreviewRejected ==
    /\ pc = "idle"
    /\ result.kind = "app"
    /\ \E i \in DOMAIN result.inFlight :
          result' = [result EXCEPT
                       !.failed = TRUE,
                       !.isRealtimeProcessing = FALSE,
                       !.inFlight = Without(@, i)]
    /\ UNCHANGED <<mode, settings, img, pc, loads, canvas, imageData, log,
                   settleLog>>

NextApp ==
    \/ handleImageUpload
    \/ setSettings
    \/ TimeoutFires
    \/ PreviewResolved
    \/ PreviewRejected

InitApp ==
    /\ mode = "none"
    /\ pc = "idle"
    /\ loads = 0
    /\ canvas = NoRaster
    /\ imageData = NoRaster
    /\ log = <<>>
    /\ settleLog = <<>>
    /\ img = SourceOf(1, 1, NoData)
    /\ settings = DefaultSettings
    /\ result = [kind |-> "app", originalImage |-> 0,
                 realtimePreview |-> Null, isRealtimeProcessing |-> FALSE,
                 timeoutId |-> Null, inFlight |-> <<>>, failed |-> FALSE]

SpecApp == InitApp /\ [][NextApp]_vars

\* C24: once no preview request is pending in the timeout or in flight, the
\* preview displayed for an uploaded image is the one computed for the
\* current image and the current settings; stated for the runs in which no
\* preview request failed.
C24_PreviewIsCurrent ==
    (/\ result.originalImage # 0
     /\ result.timeoutId = Null
     /\ result.inFlight = <<>>
     /\ ~result.failed)
        => result.realtimePreview = Request(result.originalImage, settings)

\* C25: isRealtimeProcessing is true exactly when a call of
\* processImageRealtime is in flight.
C25_FlagTracksRequests ==
    result.isRealtimeProcessing = (result.inFlight # <<>>)

==========================================================================
